---- MODULE Spec2Model ----
(***************************************************************************)
(* The notification scheduler of the service worker (public/sw.js): the    *)
(* module-level schedule state, the platform's interval timers, and one    *)
(* action per event the worker handles.  Every handler runs to completion, *)
(* so every action is one whole handler.  Times are milliseconds, as       *)
(* Date.now() gives them.  With it, the page that commands the worker      *)
(* (the HomePage component) and the relay that pushes to it                *)
(* (backend-example.js), each under a specification of its own.            *)
(***************************************************************************)
EXTENDS Integers, FiniteSets, Sequences, TLC

\* ------------------------------------------------------------------ bounds

\* The clock runs from 0 to MaxClock * StepMs.
MaxClock == 38
\* START_NOTIFICATIONS carries intervalMinutes in 1..MaxIntervalMinutes.
MaxIntervalMinutes == 2
\* The platform holds at most MaxTimers interval timers at a time.
MaxTimers == 2
\* A notification click finds at most MaxClients window clients.
MaxClients == 1
\* The page offers its default interval and the first MaxChoices of INTERVALS.
MaxChoices == 1
\* At most MaxTasks runs of toggleNotifications are waiting for an answer.
MaxTasks == 1
\* At most MaxWaiting callbacks wait for navigator.serviceWorker.ready.
MaxWaiting == 2
\* The relay's clock runs for MaxMinutes minutes.
MaxMinutes == 3
\* At most MaxSending calls of admin.messaging().send() await their answer.
\* The live fallback timers of the page, and the calls of
\* scheduleNotifications on their way to the catch.
MaxPageTimers == 2
MaxFailing == 2
MaxSending == 2

\* ------------------------------------------------------- program constants

\* JavaScript's null (sw.js:5-7); also what an absent field reads as.
NULL == -1
\* The delay of the setInterval of startNotificationSchedule (sw.js:79).
PollMs == 10000

\* The clock's granule: half a poll period, so that a tick can be late by
\* less than a poll period and a START can fall between two ticks.
StepMs == PollMs \div 2
MaxTime == MaxClock * StepMs
Intervals == 1..MaxIntervalMinutes
TimerIds == 1..MaxTimers

\* JavaScript's !v for the values the schedule fields take.
Falsy(v) == v = NULL \/ v = 0

\* The options every path passes to the platform with a notification; of
\* the fields, those that tell one notification from another.
ReminderNotification ==
  [title |-> "Reminder Notification", body |-> "This is your scheduled reminder!",
   icon |-> "/icon-192x192.jpg", tag |-> "reminder"]

\* event.data of a push event: <<>> when the push carries nothing, or one
\* payload, with what json() gives for it (<<>>: it throws; else the object,
\* whose notification is <<>> when it has none) and what text() gives.
JsonPayload(notification) ==
  [json |-> <<[notification |-> notification]>>, text |-> "{}"]
TextPayload(text) == [json |-> <<>>, text |-> text]

\* The notification object of the relay's messages (backend-example.js).
RelayNotification ==
  [title |-> "Reminder Notification",
   body |-> "This is your scheduled reminder! (Every 1 minute)",
   icon |-> "/icon-192x192.jpg"]

PushData ==
  {<<>>,
   <<JsonPayload(<<RelayNotification>>)>>,
   <<JsonPayload(<<[body |-> "Sale", tag |-> "promo"]>>)>>,
   <<JsonPayload(<<>>)>>,
   <<TextPayload("Build finished")>>,
   <<TextPayload("")>>}

\* The url of a window client is absolute; the app's pages are its root and
\* one below it.
ClientUrls == {"https://app.example/", "https://app.example/settings"}
ClientLists == UNION {[1..n -> ClientUrls] : n \in 0..MaxClients}

\* {...a, ...b}: the fields of b over those of a.
Spread(a, b) ==
  [k \in DOMAIN a \cup DOMAIN b |-> IF k \in DOMAIN b THEN b[k] ELSE a[k]]

\* The values of the page's INTERVALS and the useState default of interval.
INTERVALS == <<"1", "5", "15", "30", "60">>
DefaultInterval == "15"
IntervalChoices == {DefaultInterval} \cup {INTERVALS[i] : i \in 1..MaxChoices}

\* Number.parseInt of an interval value.
parseInt(value) ==
  CASE value = "1" -> 1
    [] value = "5" -> 5
    [] value = "15" -> 15
    [] value = "30" -> 30
    [] value = "60" -> 60

\* Notification.permission.
Permissions == {"granted", "denied", "default"}
\* What getFCMToken gives when it gives a token.
FcmToken == "fcm-token-a"
\* How a request to the relay ends: a 2xx answer, another status, or the
\* fetch rejecting.
Outcomes == {"ok", "status", "network"}

\* The messages the page posts to the worker.
StartMessage(intervalMinutes) ==
  [type |-> "START_NOTIFICATIONS", intervalMinutes |-> intervalMinutes]
StopMessage == [type |-> "STOP_NOTIFICATIONS", intervalMinutes |-> NULL]

\* The requests the page sends to the relay.
SubscribeRequest(token, intervalMinutes) ==
  [path |-> "/api/subscribe", token |-> token, intervalMinutes |-> intervalMinutes]
UnsubscribeRequest(token) ==
  [path |-> "/api/unsubscribe", token |-> token, intervalMinutes |-> NULL]

\* The tokens the relay is asked about; "" is a body without a token.
Tokens == {FcmToken, "fcm-token-b"}

\* An intervalMinutes of a request body that is a text and no number, and
\* NaN, which parseInt gives for it; both stand outside the numbers.
NonNumeric == -2
NaN == -3
\* The intervalMinutes of the bodies the relay is sent: none, zero, the
\* numbers the page sends, a text that is no number.
BodyIntervals == {NULL, NonNumeric} \cup (0..MaxIntervalMinutes)
\* parseInt(intervalMinutes) of the relay, for a number or such a text.
parseIntOfBody(intervalMinutes) ==
  IF intervalMinutes = NonNumeric THEN NaN ELSE intervalMinutes

\* How admin.messaging().send() ends: it resolves ("ok") or rejects with an
\* error of this code.
InvalidTokenCodes ==
  {"messaging/invalid-registration-token",
   "messaging/registration-token-not-registered"}
SendResults == {"ok", "messaging/internal-error"} \cup InvalidTokenCodes

\* A Map, its entries in the order of insertion.
MapHas(m, key) == \E i \in 1..Len(m) : m[i].key = key
MapGet(m, key) == m[CHOOSE i \in 1..Len(m) : m[i].key = key].value
MapDelete(m, key) == SelectSeq(m, LAMBDA e : e.key # key)
MapSize(m) == Len(m)
MapKeys(m) == {m[i].key : i \in 1..Len(m)}

\* A faulty Map.set: it adds an entry whether or not the key has one.
MapSetAppends(m, key, value) == Append(m, [key |-> key, value |-> value])

MapSet(m, key, value) ==
  IF MapHas(m, key)
  THEN [i \in 1..Len(m) |->
          IF m[i].key = key THEN [key |-> key, value |-> value] ELSE m[i]]
  ELSE Append(m, [key |-> key, value |-> value])

\* The cron expression of scheduleNotification: "* * * * *" for one minute,
\* "*/n * * * *" otherwise; step is the n of the minute field.
cronExpression(intervalMinutes) ==
  IF intervalMinutes = 1
  THEN [minute |-> "*", step |-> 1]
  ELSE [minute |-> "*/n", step |-> intervalMinutes]

\* node-cron: the expression matches the minute of the hour.
Matches(expression, minute) == (minute % 60) % expression.step = 0

VARIABLES
  notificationInterval,   \* sw.js:5
  nextNotificationTime,   \* sw.js:6
  checkInterval,          \* sw.js:7: the id setInterval returned, or null
  timers,                 \* the platform's live interval timers of the worker
  now,                    \* Date.now()
  lastEvent,              \* the event handled last, and what it was seen to do
  hist,                   \* the last START/STOP/termination and, of a
                          \* running schedule, its last notification
  page,                   \* the HomePage component's state (part_003:23-26)
  storage,                \* the page's localStorage
  env,                    \* the platform of the page: document.hidden,
                          \* Notification.permission, the active worker
  inbox,                  \* messages posted to the worker, not yet handled
  waiting,                \* messages of callbacks waiting for
                          \* navigator.serviceWorker.ready
  tasks,                  \* the runs of toggleNotifications at an await
  intervalRef,            \* intervalRef.current (part_003:31): a timer id or null
  pageTimers,             \* the platform's live interval timers of the page
  failing,                \* the calls of scheduleNotifications whose
                          \* communication with the worker is about to throw
  pageEvent,              \* the page handler that ran last, and what it did
  subscriptions,          \* backend-example.js:46
  cronTasks,              \* cron.getTasks(): token -> job
  cronJobs,               \* the cron jobs that are running
  sending,                \* the calls of admin.messaging().send() awaited
  minute,                 \* the relay's clock, in minutes
  relayEvent              \* what the relay did last

workerVars == <<notificationInterval, nextNotificationTime, checkInterval,
                timers, now, lastEvent, hist>>
fallbackVars == <<intervalRef, pageTimers, failing>>
pageVars == <<page, storage, env, inbox, waiting, tasks, pageEvent, fallbackVars>>
relayVars == <<subscriptions, cronTasks, cronJobs, sending, minute, relayEvent>>
vars == <<workerVars, pageVars, relayVars>>
\* What the worker's events leave alone.
pageAndRelay == <<pageVars, relayVars>>
\* What the relay's events leave alone.
workerAndPage == <<workerVars, pageVars>>

\* ------------------------------------------------------- the worker's code

\* The worker's memory during one handler: the three module-level variables,
\* the platform's timers, whether Notification.permission is "granted", and what the
\* handler has done so far: the notifications it passed to the platform
\* (shown their number, notes their options), those the platform displayed,
\* and what a notification click closed, focused and opened.
Worker(granted) ==
  [notificationInterval |-> notificationInterval,
   nextNotificationTime |-> nextNotificationTime,
   checkInterval |-> checkInterval,
   timers |-> timers,
   granted |-> granted,
   shown |-> 0,
   displayed |-> 0,
   notes |-> <<>>,
   closed |-> FALSE,
   focused |-> 0,
   opened |-> <<>>]

\* self.registration.showNotification(title, options): one more notification
\* goes to the platform, which displays it when the permission is granted;
\* otherwise the promise it returns rejects, and no caller awaits it.
display(w, options) ==
  [w EXCEPT !.shown = @ + 1,
            !.notes = Append(@, options),
            !.displayed = IF w.granted THEN @ + 1 ELSE @]

\* showNotification() of the worker: the reminder, with the fixed options.
showNotification(w) == display(w, ReminderNotification)

\* clearInterval(id): the platform drops the timer of that id.
clearInterval(w, id) == [w EXCEPT !.timers = {t \in @ : t.id # id}]

\* setInterval(callback, 10000): a new timer with an id no live timer has;
\* its callback holds the intervalMs of its closure.  wait is the time left
\* until the timer is due, late whether time has passed since it was due.
FreshId(w) ==
  CHOOSE i \in TimerIds :
    /\ \A t \in w.timers : t.id # i
    /\ \A j \in TimerIds : (\A t \in w.timers : t.id # j) => i <= j

setInterval(w, intervalMs) ==
  [w EXCEPT !.timers = @ \cup {[id |-> FreshId(w), intervalMs |-> intervalMs,
                                wait |-> PollMs, late |-> FALSE]},
            !.checkInterval = FreshId(w)]

\* Faulty variants of stopNotificationSchedule: one leaves the deadline set,
\* one leaves the interval set, one forgets the platform's timer.
stopKeepsDeadline(w) ==
  LET w1 == IF ~Falsy(w.checkInterval)
            THEN [clearInterval(w, w.checkInterval) EXCEPT !.checkInterval = NULL]
            ELSE w
  IN [w1 EXCEPT !.notificationInterval = NULL]

stopKeepsInterval(w) ==
  LET w1 == IF ~Falsy(w.checkInterval)
            THEN [clearInterval(w, w.checkInterval) EXCEPT !.checkInterval = NULL]
            ELSE w
  IN [w1 EXCEPT !.nextNotificationTime = NULL]

stopKeepsTimer(w) ==
  [w EXCEPT !.checkInterval = NULL, !.notificationInterval = NULL,
            !.nextNotificationTime = NULL]

stopNotificationSchedule(w) ==
  LET w1 == IF ~Falsy(w.checkInterval)
            THEN [clearInterval(w, w.checkInterval) EXCEPT !.checkInterval = NULL]
            ELSE w
  IN [w1 EXCEPT !.notificationInterval = NULL, !.nextNotificationTime = NULL]

\* Faulty variants of startNotificationSchedule: one never moves the deadline
\* past the immediate notification, one does not clear the old schedule, one
\* is cut short at the immediate notification when the platform refuses it.
startKeepsImmediateDeadline(w, intervalMinutes, t) ==
  LET w1 == stopNotificationSchedule(w)
      w2 == [w1 EXCEPT !.notificationInterval = intervalMinutes]
      intervalMs == intervalMinutes * 60 * 1000
      w3 == [w2 EXCEPT !.nextNotificationTime = t]
      w4 == showNotification(w3)
  IN setInterval(w4, intervalMs)

startWithoutStop(w, intervalMinutes, t) ==
  LET w2 == [w EXCEPT !.notificationInterval = intervalMinutes]
      intervalMs == intervalMinutes * 60 * 1000
      w3 == [w2 EXCEPT !.nextNotificationTime = t]
      w4 == showNotification(w3)
      w5 == [w4 EXCEPT !.nextNotificationTime = t + intervalMs]
  IN setInterval(w5, intervalMs)

startStopsAtRefusedDisplay(w, intervalMinutes, t) ==
  LET w1 == stopNotificationSchedule(w)
      w2 == [w1 EXCEPT !.notificationInterval = intervalMinutes]
      intervalMs == intervalMinutes * 60 * 1000
      w3 == [w2 EXCEPT !.nextNotificationTime = t]
      w4 == showNotification(w3)
      w5 == [w4 EXCEPT !.nextNotificationTime = t + intervalMs]
  IN IF w4.displayed = 0 THEN w4 ELSE setInterval(w5, intervalMs)

\* One more: the new poll loop holds the interval of the schedule it
\* replaces.
startLoopHoldsOldInterval(w, intervalMinutes, t) ==
  LET w1 == stopNotificationSchedule(w)
      w2 == [w1 EXCEPT !.notificationInterval = intervalMinutes]
      intervalMs == intervalMinutes * 60 * 1000
      w3 == [w2 EXCEPT !.nextNotificationTime = t]
      w4 == showNotification(w3)
      w5 == [w4 EXCEPT !.nextNotificationTime = t + intervalMs]
  IN setInterval(w5, IF Falsy(w.notificationInterval)
                     THEN intervalMs ELSE w.notificationInterval * 60 * 1000)

startNotificationSchedule(w, intervalMinutes, t) ==
  LET w1 == stopNotificationSchedule(w)
      w2 == [w1 EXCEPT !.notificationInterval = intervalMinutes]
      intervalMs == intervalMinutes * 60 * 1000
      w3 == [w2 EXCEPT !.nextNotificationTime = t]
      w4 == showNotification(w3)
      w5 == [w4 EXCEPT !.nextNotificationTime = t + intervalMs]
  IN setInterval(w5, intervalMs)

\* Faulty variants of checkAndSendNotification: the next deadline counted
\* from the old one; no comparison with the deadline; the deadline moved on
\* every tick; the deadline taken for the time of the last notification; the
\* guard on the interval inverted.
checkFromOldDeadline(w, intervalMs, t) ==
  IF Falsy(w.nextNotificationTime) \/ Falsy(w.notificationInterval)
  THEN w
  ELSE IF t >= w.nextNotificationTime
       THEN [showNotification(w) EXCEPT
               !.nextNotificationTime = w.nextNotificationTime + intervalMs]
       ELSE w

checkWithoutDeadline(w, intervalMs, t) ==
  IF Falsy(w.nextNotificationTime) \/ Falsy(w.notificationInterval)
  THEN w
  ELSE [showNotification(w) EXCEPT !.nextNotificationTime = t + intervalMs]

checkAlwaysReschedules(w, intervalMs, t) ==
  IF Falsy(w.nextNotificationTime) \/ Falsy(w.notificationInterval)
  THEN w
  ELSE IF t >= w.nextNotificationTime
       THEN [showNotification(w) EXCEPT !.nextNotificationTime = t + intervalMs]
       ELSE [w EXCEPT !.nextNotificationTime = t + intervalMs]

checkOneIntervalLate(w, intervalMs, t) ==
  IF Falsy(w.nextNotificationTime) \/ Falsy(w.notificationInterval)
  THEN w
  ELSE IF t - w.nextNotificationTime >= intervalMs
       THEN [showNotification(w) EXCEPT !.nextNotificationTime = t + intervalMs]
       ELSE w

checkGuardInverted(w, intervalMs, t) ==
  IF Falsy(w.nextNotificationTime) \/ ~Falsy(w.notificationInterval)
  THEN w
  ELSE IF t >= w.nextNotificationTime
       THEN [showNotification(w) EXCEPT !.nextNotificationTime = t + intervalMs]
       ELSE w

checkAndSendNotification(w, intervalMs, t) ==
  IF Falsy(w.nextNotificationTime) \/ Falsy(w.notificationInterval)
  THEN w
  ELSE IF t >= w.nextNotificationTime
       THEN [showNotification(w) EXCEPT !.nextNotificationTime = t + intervalMs]
       ELSE w

\* Faulty variant of the push handler's notificationData: the defaults are
\* spread over the payload's notification, so that the payload overrides
\* nothing the defaults name.
notificationDataDefaultsWin(data) ==
  IF data = <<>> THEN ReminderNotification
  ELSE IF data[1].json # <<>>
       THEN IF data[1].json[1].notification # <<>>
            THEN Spread(data[1].json[1].notification[1], ReminderNotification)
            ELSE ReminderNotification
       ELSE IF data[1].text # ""
            THEN [ReminderNotification EXCEPT !.body = data[1].text]
            ELSE ReminderNotification

\* The push handler's notificationData for event.data: nothing (<<>>) or one
\* payload.  json() gives the payload's object or throws; an object's
\* notification, when it has one, is spread over the defaults; a payload
\* that is no JSON gives the body when its text is not empty.
notificationData(data) ==
  IF data = <<>> THEN ReminderNotification
  ELSE IF data[1].json # <<>>
       THEN IF data[1].json[1].notification # <<>>
            THEN Spread(ReminderNotification, data[1].json[1].notification[1])
            ELSE ReminderNotification
       ELSE IF data[1].text # ""
            THEN [ReminderNotification EXCEPT !.body = data[1].text]
            ELSE ReminderNotification

\* The options of the FCM worker's onBackgroundMessage handler for the
\* payload's notification (<<>>: it has none): its title, body and icon where
\* they are there and not empty, the tag always the fixed one.
backgroundNotification(notification) ==
  LET field(k) == IF notification # <<>> /\ k \in DOMAIN notification[1]
                     /\ notification[1][k] # ""
                  THEN notification[1][k]
                  ELSE ReminderNotification[k]
  IN [title |-> field("title"), body |-> field("body"), icon |-> field("icon"),
      tag |-> "reminder"]

\* The then-callback of the notificationclick listener, after
\* event.notification.close(): the first client whose url is "/" is focused;
\* when there is none, a window is opened at "/".
notificationclick(w, clientList) ==
  LET atRoot == {i \in 1..Len(clientList) : clientList[i] = "/"}
      first == CHOOSE i \in atRoot : \A j \in atRoot : i <= j
      w1 == [w EXCEPT !.closed = TRUE]
  IN IF atRoot # {}
     THEN [w1 EXCEPT !.focused = first]
     ELSE [w1 EXCEPT !.opened = Append(@, "/")]

\* The handler's memory becomes the worker's state.
Commit(w) ==
  /\ notificationInterval' = w.notificationInterval
  /\ nextNotificationTime' = w.nextNotificationTime
  /\ checkInterval' = w.checkInterval
  /\ timers' = w.timers

\* What the handler of an event was seen to do: the notifications it showed,
\* the replies it posted on the port it was given, whether it threw.  arg is
\* the event's input, found the nextNotificationTime the handler found, late
\* whether a poll tick ran after its due time.
Event(type, w, arg, late, replies, threw) ==
  [type |-> type, shown |-> w.shown, arg |-> arg, found |-> nextNotificationTime,
   late |-> late, replies |-> replies, threw |-> threw,
   displayed |-> w.displayed, notes |-> w.notes,
   closed |-> w.closed, focused |-> w.focused, opened |-> w.opened]

\* No handler has run at the present instant.
NoEvent ==
  [type |-> "none", shown |-> 0, arg |-> NULL, found |-> NULL, late |-> FALSE,
   replies |-> <<>>, threw |-> FALSE,
   displayed |-> 0, notes |-> <<>>,
   closed |-> FALSE, focused |-> 0, opened |-> <<>>]

\* Which of START, STOP and termination came last ("initial": none yet) and,
\* while a schedule runs, when its last notification was shown and how many
\* of its notifications the poll loop has shown.
History(phase, fireAt, polls) == [phase |-> phase, fireAt |-> fireAt, polls |-> polls]

\* Faulty variant of the CHECK_SCHEDULE reply: both fields read the interval.
ScheduleStatusIntervalTwice(w) ==
  [interval |-> w.notificationInterval, nextTime |-> w.notificationInterval]

\* The message the CHECK_SCHEDULE branch posts.
ScheduleStatus(w) ==
  [interval |-> w.notificationInterval, nextTime |-> w.nextNotificationTime]

\* event.ports[0].postMessage(msg) of the CHECK_SCHEDULE branch: one message
\* on the port, or a TypeError when the sender gave no port.
PortReply(hasPort, msg) == IF hasPort THEN <<msg>> ELSE <<>>

\* --------------------------------------------------------- the page's code

\* The platform of the page has notifications.  It has service workers or
\* not (env.supported); where it has, navigator.serviceWorker.ready resolves
\* with a registration whose active worker is there, until the communication
\* with the worker fails (env.failed): from then on, in this page, nothing
\* reaches the worker, and what scheduleNotifications awaits throws.

\* The component's state before its first effect: the useState defaults.
InitialState ==
  [isSupported |-> FALSE, permission |-> "default", isSubscribed |-> FALSE,
   interval |-> DefaultInterval]

\* No render has gone before: every effect runs.
Unmounted ==
  [isSupported |-> FALSE, permission |-> "", isSubscribed |-> FALSE, interval |-> ""]

\* An empty localStorage: getItem gives null, here "", for every key.
EmptyStorage == [fcmToken |-> "", isSubscribed |-> "", notificationInterval |-> ""]

\* A run of toggleNotifications at an await: of Notification.requestPermission
\* ("permission"), of getFCMToken ("token"), of the fetch of
\* subscribeToBackend ("subscribe") or unsubscribeFromBackend ("unsubscribe");
\* interval is the interval of its closure.
Task(kind, interval, token) == [kind |-> kind, interval |-> interval, token |-> token]

\* The page's memory during one handler: the component's state, localStorage,
\* what the platform tells it, and what the handler has done so far: the
\* messages it posted to the worker, the requests it sent to the relay, the
\* toasts it raised and the awaits it stopped at.
PageOf(state) ==
  [isSupported |-> state.isSupported,
   permission |-> state.permission,
   isSubscribed |-> state.isSubscribed,
   interval |-> state.interval,
   storage |-> storage,
   hidden |-> env.hidden,
   notificationPermission |-> env.permission,
   serviceWorker |-> env.supported,
   failed |-> env.failed,
   intervalRef |-> intervalRef,
   timers |-> pageTimers,
   failing |-> failing,
   direct |-> 0,
   posts |-> <<>>,
   requests |-> <<>>,
   toasts |-> <<>>,
   started |-> <<>>]

Page == PageOf(page)

State(p) ==
  [isSupported |-> p.isSupported, permission |-> p.permission,
   isSubscribed |-> p.isSubscribed, interval |-> p.interval]

toast(p, title) == [p EXCEPT !.toasts = Append(@, title)]

\* if ("serviceWorker" in navigator) navigator.serviceWorker.ready.then(
\*   registration => registration.active.postMessage(msg)); nothing is posted
\* once the communication with the worker has failed.
postWhenReady(p, msg) ==
  IF p.serviceWorker /\ ~p.failed THEN [p EXCEPT !.posts = Append(@, msg)] ELSE p

\* if (intervalRef.current) { clearInterval(intervalRef.current);
\* intervalRef.current = null }
clearFallback(p) ==
  IF p.intervalRef # NULL
  THEN [p EXCEPT !.timers = {t \in @ : t.id # p.intervalRef}, !.intervalRef = NULL]
  ELSE p

\* The cleanup of the first effect: the timer intervalRef names is cleared,
\* and intervalRef keeps the id.
cleanup(p) ==
  IF p.intervalRef # NULL
  THEN [p EXCEPT !.timers = {t \in @ : t.id # p.intervalRef}]
  ELSE p

\* new Notification("Reminder Notification", ...) of the page.
showDirectNotification(p) == [p EXCEPT !.direct = @ + 1]

\* sendNotification() of the page.
pageSendNotification(p) ==
  IF p.notificationPermission = "granted" THEN showDirectNotification(p) ELSE p

\* The fallback of scheduleNotifications: sendNotification(), then
\* intervalRef.current = setInterval(() => sendNotification(), intervalMs).
\* The platform gives the timer an id no live timer has.
fallback(p, intervalMinutes) ==
  LET p1 == pageSendNotification(p)
      id == CHOOSE i \in 1..(MaxPageTimers + 1) :
              /\ \A t \in p1.timers : t.id # i
              /\ \A j \in 1..(i - 1) : \E t \in p1.timers : t.id = j
  IN [p1 EXCEPT !.timers = @ \cup {[id |-> id, intervalMs |-> intervalMinutes * 60 * 1000]},
                !.intervalRef = id]

\* scheduleNotifications(intervalMinutes), up to its await: the fallback
\* timer is cleared; without service workers the fallback starts at once;
\* with them START is posted to the active worker, or, when the
\* communication fails, the call is on its way to its catch.
scheduleNotifications(p, intervalMinutes) ==
  LET p1 == clearFallback(p)
  IN IF p1.serviceWorker
     THEN IF p1.failed
          THEN [p1 EXCEPT !.failing = Append(@, intervalMinutes)]
          ELSE postWhenReady(p1, StartMessage(intervalMinutes))
     ELSE fallback(p1, intervalMinutes)

\* The catch of scheduleNotifications.
scheduleFailed(p, intervalMinutes) == fallback(p, intervalMinutes)

\* A faulty first effect: it does not restore the saved interval.
mountForgetsInterval(p) ==
  [p EXCEPT !.isSupported = TRUE,
            !.permission = p.notificationPermission,
            !.isSubscribed = IF p.storage.isSubscribed = "true" THEN TRUE ELSE @]

\* The first effect (deps isSubscribed, interval): what its setState calls
\* make of the state for the next render.
mountEffect(p) ==
  [p EXCEPT !.isSupported = IF p.serviceWorker THEN TRUE ELSE @,
            !.permission = IF p.serviceWorker THEN p.notificationPermission ELSE @,
            !.interval = IF p.storage.notificationInterval # ""
                         THEN p.storage.notificationInterval ELSE @,
            !.isSubscribed = IF p.storage.isSubscribed = "true" THEN TRUE ELSE @]

\* The second effect (deps isSubscribed, permission, interval).
subscriptionEffect(p) ==
  IF p.isSubscribed /\ p.permission = "granted"
  THEN scheduleNotifications(p, parseInt(p.interval))
  ELSE p

\* React renders the state a handler has set and runs the effects whose
\* dependencies differ from the render before (prev), the cleanup of the
\* render before first; the effects see the state of this render; what the
\* first effect sets is rendered next, until nothing changes.  All of it
\* happens before the page's next handler.
RECURSIVE render(_, _)
render(prev, p) ==
  LET deps1 == prev.isSubscribed # p.isSubscribed \/ prev.interval # p.interval
      deps2 == deps1 \/ prev.permission # p.permission
      p0 == IF deps1 /\ prev # Unmounted THEN cleanup(p) ELSE p
      p1 == IF deps2 THEN subscriptionEffect(p0) ELSE p0
      p2 == IF deps1 THEN mountEffect(p1) ELSE p1
  IN IF State(p2) = State(p) THEN p2 ELSE render(State(p), p2)

\* Faulty variants of handleVisibilityChange: one does not look at
\* isSubscribed, one posts the default interval.
visibilityIgnoresSubscribed(p) ==
  IF ~p.hidden /\ p.interval # ""
  THEN postWhenReady(p, StartMessage(parseInt(p.interval)))
  ELSE p

visibilityPostsDefault(p) ==
  IF ~p.hidden /\ p.isSubscribed /\ p.interval # ""
  THEN postWhenReady(p, StartMessage(parseInt(DefaultInterval)))
  ELSE p

handleVisibilityChange(p) ==
  IF ~p.hidden /\ p.isSubscribed /\ p.interval # ""
  THEN postWhenReady(p, StartMessage(parseInt(p.interval)))
  ELSE p

\* Faulty variant of handleIntervalChange: it also sends the new interval to
\* the relay.
intervalChangeResubscribes(p, value) ==
  LET p1 == [p EXCEPT !.interval = value]
  IN IF p.isSubscribed
     THEN toast(scheduleNotifications(
                  [p1 EXCEPT !.storage.notificationInterval = value,
                             !.requests = Append(@, SubscribeRequest(p.storage.fcmToken,
                                                                     parseInt(value)))],
                  parseInt(value)),
                "Interval updated")
     ELSE p1

handleIntervalChange(p, value) ==
  LET p1 == [p EXCEPT !.interval = value]
  IN IF p.isSubscribed
     THEN toast(scheduleNotifications(
                  [p1 EXCEPT !.storage.notificationInterval = value],
                  parseInt(value)),
                "Interval updated")
     ELSE p1

\* requestPermission, up to its await.
requestPermission(p) ==
  IF ~p.isSupported
  THEN toast(p, "Not supported")
  ELSE [p EXCEPT !.started = Append(@, Task("permission", "", ""))]

\* requestPermission, from its await on.
permissionAnswered(p, perm) ==
  toast([p EXCEPT !.permission = perm],
        IF perm = "granted" THEN "Permission granted" ELSE "Permission denied")

\* The end of the unsubscribe branch of toggleNotifications.
disabled(p) ==
  toast([p EXCEPT !.storage.isSubscribed = "", !.isSubscribed = FALSE],
        "Notifications disabled")

\* A faulty toggleNotifications: it does not look at the permission.
toggleWithoutPermission(p) ==
  IF p.isSubscribed
  THEN LET p1 == postWhenReady(clearFallback(p), StopMessage)
           fcmToken == p1.storage.fcmToken
       IN IF fcmToken # ""
          THEN [p1 EXCEPT !.requests = Append(@, UnsubscribeRequest(fcmToken)),
                          !.started = Append(@, Task("unsubscribe", "", fcmToken))]
          ELSE disabled(p1)
  ELSE [p EXCEPT !.started = Append(@, Task("token", p.interval, ""))]

\* toggleNotifications, up to its first await.
toggleNotifications(p) ==
  IF p.permission # "granted" THEN requestPermission(p)
  ELSE IF p.isSubscribed
       THEN LET p1 == postWhenReady(clearFallback(p), StopMessage)
                fcmToken == p1.storage.fcmToken
            IN IF fcmToken # ""
               THEN [p1 EXCEPT !.requests = Append(@, UnsubscribeRequest(fcmToken)),
                               !.started = Append(@, Task("unsubscribe", "", fcmToken))]
               ELSE disabled(p1)
       ELSE [p EXCEPT !.started = Append(@, Task("token", p.interval, ""))]

\* A faulty variant: the branch goes on without a token.
tokenNotNeeded(p, task, fcmToken) ==
  [p EXCEPT !.storage.fcmToken = fcmToken,
            !.requests = Append(@, SubscribeRequest(fcmToken, parseInt(task.interval))),
            !.started = Append(@, Task("subscribe", task.interval, fcmToken))]

\* The subscribe branch from getFCMToken's answer (fcmToken, "" for null) to
\* the fetch of subscribeToBackend.
tokenAnswered(p, task, fcmToken) ==
  IF fcmToken = ""
  THEN toast(p, "Error")
  ELSE [p EXCEPT !.storage.fcmToken = fcmToken,
                 !.requests = Append(@, SubscribeRequest(fcmToken, parseInt(task.interval))),
                 !.started = Append(@, Task("subscribe", task.interval, fcmToken))]

\* Faulty variants of the end of the subscribe branch: one gives up when the
\* relay did not answer 2xx, one does not persist the preference.
subscribeNeedsRelay(p, task, outcome) ==
  IF outcome # "ok"
  THEN toast(p, "Error")
  ELSE LET p2 == [p EXCEPT !.storage.isSubscribed = "true",
                           !.storage.notificationInterval = task.interval,
                           !.isSubscribed = TRUE]
       IN toast(scheduleNotifications(p2, parseInt(task.interval)),
                "Notifications enabled")

\* The subscribe branch from the answer to subscribeToBackend on: outcome "ok"
\* makes subscribed true, every other outcome false.
subscribeAnswered(p, task, outcome) ==
  LET p1 == IF outcome # "ok" THEN toast(p, "Warning") ELSE p
      p2 == [p1 EXCEPT !.storage.isSubscribed = "true",
                       !.storage.notificationInterval = task.interval,
                       !.isSubscribed = TRUE]
  IN toast(scheduleNotifications(p2, parseInt(task.interval)),
           "Notifications enabled")

\* Faulty variants of the end of the unsubscribe branch: one keeps the
\* subscription when the relay did not answer 2xx, one asks the relay again.
unsubscribeNeedsRelay(p, task, outcome) ==
  IF outcome # "ok"
  THEN toast(p, "Error")
  ELSE disabled([p EXCEPT !.storage.fcmToken = ""])

unsubscribeRetries(p, task, outcome) ==
  IF outcome # "ok"
  THEN [p EXCEPT !.requests = Append(@, UnsubscribeRequest(task.token)),
                 !.started = Append(@, task)]
  ELSE disabled([p EXCEPT !.storage.fcmToken = ""])

\* The unsubscribe branch from the answer to unsubscribeFromBackend on; what
\* the answer was is not looked at.
unsubscribeAnswered(p, task, outcome) ==
  disabled([p EXCEPT !.storage.fcmToken = ""])

\* What the page handler of an event was seen to do; task is the run of
\* toggleNotifications it resumed, outcome the answer that resumed it.
PageEvent(type, p, task, outcome) ==
  [type |-> type, task |-> task, outcome |-> outcome, posts |-> p.posts,
   requests |-> p.requests, toasts |-> p.toasts, direct |-> p.direct]

NoTask == Task("none", "", "")

\* The last step was not a page handler's.
NoPageEvent ==
  [type |-> "none", task |-> NoTask, outcome |-> "", posts |-> <<>>,
   requests |-> <<>>, toasts |-> <<>>, direct |-> 0]

\* The sequence q without its i-th element.
Without(q, i) == SubSeq(q, 1, i - 1) \o SubSeq(q, i + 1, Len(q))

\* The handler's memory becomes the page's state: what it posted goes to the
\* worker when one is active and waits for it otherwise; the awaits it
\* stopped at join the others (rest).  A handler of the loaded page runs
\* when the worker has handled what the handler before it posted.
CommitPage(p, rest) ==
  /\ env.loaded
  /\ inbox = <<>>
  /\ page' = State(p)
  /\ storage' = p.storage
  /\ IF env.active
     THEN inbox' = inbox \o p.posts /\ waiting' = waiting
     ELSE /\ Len(waiting) + Len(p.posts) <= MaxWaiting
          /\ waiting' = waiting \o p.posts
          /\ inbox' = inbox
  /\ Len(rest) + Len(p.started) <= MaxTasks
  /\ tasks' = rest \o p.started
  /\ Cardinality(p.timers) <= MaxPageTimers
  /\ Len(p.failing) <= MaxFailing
  /\ intervalRef' = p.intervalRef
  /\ pageTimers' = p.timers
  /\ failing' = p.failing
  /\ lastEvent' = NoEvent
  /\ UNCHANGED <<notificationInterval, nextNotificationTime, checkInterval,
                 timers, now, hist>>

\* ------------------------------------------------ the code of the relay

\* Date.now() of the relay in the minute m of its clock.
DateNow(m) == m * 60000

\* The relay's memory during one handler: the subscriptions, the cron tasks
\* and the running jobs, the sends awaited, and what the handler has done so
\* far: its response, and the tokens it called admin.messaging().send() for.
Relay ==
  [subscriptions |-> subscriptions, tasks |-> cronTasks, jobs |-> cronJobs,
   sending |-> sending, minute |-> minute, status |-> NULL, size |-> NULL,
   attempted |-> {}, threw |-> FALSE]

\* res.status(status).json(...); size is the body's subscriptions, if any.
respond(r, status, size) == [r EXCEPT !.status = status, !.size = size]

Job(token, intervalMinutes) ==
  [token |-> token, intervalMinutes |-> intervalMinutes,
   expression |-> cronExpression(intervalMinutes)]

\* A faulty scheduleNotification: the job the token had keeps running.
scheduleKeepsExisting(r, token, intervalMinutes) ==
  LET job == Job(token, intervalMinutes)
  IN IF intervalMinutes = NaN
     THEN [r EXCEPT !.threw = TRUE]
     ELSE [r EXCEPT !.jobs = @ \cup {job}, !.tasks = MapSet(@, token, job)]

\* scheduleNotification(token, intervalMinutes): the job the token had is
\* stopped, then cron.schedule validates the expression and throws for
\* "*/NaN * * * *", before any job is created or stored.
scheduleNotification(r, token, intervalMinutes) ==
  LET job == Job(token, intervalMinutes)
      r1 == IF MapHas(r.tasks, token)
            THEN [r EXCEPT !.jobs = @ \ {MapGet(r.tasks, token)}]
            ELSE r
  IN IF intervalMinutes = NaN
     THEN [r1 EXCEPT !.threw = TRUE]
     ELSE [r1 EXCEPT !.jobs = @ \cup {job}, !.tasks = MapSet(@, token, job)]

\* A faulty subscribe: it stores the subscription before it looks at the
\* body.
subscribeStoresFirst(r, token, intervalMinutes) ==
  LET r1 == [r EXCEPT !.subscriptions =
                MapSet(@, token, [intervalMinutes |-> parseIntOfBody(intervalMinutes),
                                  lastSent |-> DateNow(r.minute)])]
  IN IF token = "" \/ Falsy(intervalMinutes)
     THEN respond(r1, 400, NULL)
     ELSE LET r2 == scheduleNotification(r1, token, parseIntOfBody(intervalMinutes))
          IN IF r2.threw THEN respond(r2, 500, NULL) ELSE respond(r2, 200, NULL)

\* POST /api/subscribe; token "" and intervalMinutes NULL and 0 are what
\* !token and !intervalMinutes hold of.  The subscription is stored, then the
\* job is scheduled; what scheduleNotification throws is caught and answered
\* with 500.
subscribe(r, token, intervalMinutes) ==
  IF token = "" \/ Falsy(intervalMinutes)
  THEN respond(r, 400, NULL)
  ELSE LET r1 == [r EXCEPT !.subscriptions =
                     MapSet(@, token, [intervalMinutes |-> parseIntOfBody(intervalMinutes),
                                       lastSent |-> DateNow(r.minute)])]
           r2 == scheduleNotification(r1, token, parseIntOfBody(intervalMinutes))
       IN IF r2.threw THEN respond(r2, 500, NULL) ELSE respond(r2, 200, NULL)

\* POST /api/unsubscribe
unsubscribe(r, token) ==
  IF token = ""
  THEN respond(r, 400, NULL)
  ELSE respond([r EXCEPT !.subscriptions = MapDelete(@, token)], 200, NULL)

\* GET /health
health(r) == respond(r, 200, MapSize(r.subscriptions))

\* A call of admin.messaging().send(): its token, and the minute of the call.
Send(job, m) ==
  [token |-> job.token, intervalMinutes |-> job.intervalMinutes, at |-> m]

\* sendNotification, up to its await: the message is handed to
\* admin.messaging().send().
sendNotification(r, job) ==
  [r EXCEPT !.sending = @ \cup {Send(job, r.minute)},
            !.attempted = @ \cup {job.token}]

\* Faulty variants of the end of sendNotification: one removes the
\* subscription on every error, one records lastSent on an error too.
sentRemovesOnAnyError(r, send, result) ==
  LET r1 == [r EXCEPT !.sending = @ \ {send}]
  IN IF result = "ok"
     THEN IF MapHas(r1.subscriptions, send.token)
          THEN [r1 EXCEPT !.subscriptions =
                  MapSet(@, send.token,
                         [MapGet(r1.subscriptions, send.token)
                            EXCEPT !.lastSent = DateNow(r.minute)])]
          ELSE r1
     ELSE [r1 EXCEPT !.subscriptions = MapDelete(@, send.token)]

\* sendNotification, from its await on.
sent(r, send, result) ==
  LET r1 == [r EXCEPT !.sending = @ \ {send}]
  IN IF result = "ok"
     THEN IF MapHas(r1.subscriptions, send.token)
          THEN [r1 EXCEPT !.subscriptions =
                  MapSet(@, send.token,
                         [MapGet(r1.subscriptions, send.token)
                            EXCEPT !.lastSent = DateNow(r.minute)])]
          ELSE r1
     ELSE IF result \in InvalidTokenCodes
          THEN [r1 EXCEPT !.subscriptions = MapDelete(@, send.token)]
          ELSE r1

\* The callbacks of the jobs that are due, one after the other.
RECURSIVE fire(_, _)
fire(r, jobs) ==
  IF jobs = {} THEN r
  ELSE LET job == CHOOSE j \in jobs : TRUE
       IN fire(sendNotification(r, job), jobs \ {job})

\* What the relay was seen to do: for a request its token, interval and
\* status, for /health the count it reported, for a minute of the clock the
\* tokens a message was sent to, for the end of a send its token and result;
\* before is the number of subscriptions it found.
RelayEvent(type, r, token, arg) ==
  [type |-> type, token |-> token, arg |-> arg, status |-> r.status,
   size |-> r.size, attempted |-> r.attempted,
   before |-> MapSize(subscriptions)]

\* The last step was not the relay's.
NoRelayEvent ==
  [type |-> "none", token |-> "", arg |-> "", status |-> NULL, size |-> NULL,
   attempted |-> {}, before |-> 0]

CommitRelay(r) ==
  /\ subscriptions' = r.subscriptions
  /\ cronTasks' = r.tasks
  /\ cronJobs' = r.jobs
  /\ sending' = r.sending
  /\ UNCHANGED workerAndPage

\* ------------------------------------------------------------------ events

\* A first visit: nothing is stored, the permission has not been asked for,
\* the page has not loaded and the worker is not yet active.
Init ==
  /\ notificationInterval = NULL
  /\ nextNotificationTime = NULL
  /\ checkInterval = NULL
  /\ timers = {}
  /\ now = 0
  /\ lastEvent = NoEvent
  /\ hist = History("initial", NULL, 0)
  /\ page = InitialState
  /\ storage = EmptyStorage
  /\ env = [hidden |-> FALSE, permission |-> "default", active |-> FALSE,
            loaded |-> FALSE, supported |-> TRUE, failed |-> FALSE]
  /\ intervalRef = NULL
  /\ pageTimers = {}
  /\ failing = <<>>
  /\ inbox = <<>>
  /\ waiting = <<>>
  /\ tasks = <<>>
  /\ pageEvent = NoPageEvent
  /\ subscriptions = <<>>
  /\ cronTasks = <<>>
  /\ cronJobs = {}
  /\ sending = {}
  /\ minute = 0
  /\ relayEvent = NoRelayEvent

\* message {type: "START_NOTIFICATIONS", intervalMinutes}
Start(intervalMinutes, granted) ==
  LET w == startNotificationSchedule(Worker(granted), intervalMinutes, now)
  IN /\ Cardinality(stopNotificationSchedule(Worker(granted)).timers) < MaxTimers
     /\ Commit(w)
     /\ lastEvent' = Event("START_NOTIFICATIONS", w, intervalMinutes, FALSE, <<>>, FALSE)
     /\ hist' = History("started", now, 0)
     /\ UNCHANGED now

\* message {type: "STOP_NOTIFICATIONS"}
Stop ==
  LET w == stopNotificationSchedule(Worker(FALSE))
  IN /\ Commit(w)
     /\ lastEvent' = Event("STOP_NOTIFICATIONS", w, NULL, FALSE, <<>>, FALSE)
     /\ hist' = History("stopped", NULL, 0)
     /\ UNCHANGED now

\* message {type: "CHECK_SCHEDULE"}, with or without a reply port
CheckSchedule(hasPort) ==
  /\ lastEvent' = Event("CHECK_SCHEDULE", Worker(FALSE), NULL, FALSE,
                        PortReply(hasPort, ScheduleStatus(Worker(FALSE))), ~hasPort)
  /\ Commit(Worker(FALSE))
  /\ UNCHANGED <<now, hist>>

\* a message of any other type, or with no data: no branch is taken
OtherMessage ==
  /\ lastEvent' = Event("OTHER_MESSAGE", Worker(FALSE), NULL, FALSE, <<>>, FALSE)
  /\ Commit(Worker(FALSE))
  /\ UNCHANGED <<now, hist>>

\* The platform runs the callback of interval timer t, at or after its due
\* time, and arms the timer again for one poll period later.
Tick(t, granted) ==
  LET w == checkAndSendNotification(Worker(granted), t.intervalMs, now)
  IN /\ t.wait = 0
     /\ notificationInterval' = w.notificationInterval
     /\ nextNotificationTime' = w.nextNotificationTime
     /\ checkInterval' = w.checkInterval
     /\ timers' = (w.timers \ {t}) \cup
                     {[t EXCEPT !.wait = PollMs, !.late = FALSE]}
     /\ lastEvent' = Event("tick", w, t.id, t.late, <<>>, FALSE)
     /\ hist' = IF w.shown > 0
                THEN History(hist.phase, now, hist.polls + 1)
                ELSE hist
     /\ UNCHANGED now

\* push event with event.data = data: one notification
Push(data, granted) ==
  LET w == display(Worker(granted), notificationData(data))
  IN /\ Commit(w)
     /\ lastEvent' = Event("push", w, data, FALSE, <<>>, FALSE)
     /\ UNCHANGED <<now, hist>>

\* A background message reaches the FCM worker (firebase-messaging-sw.js):
\* one notification
BackgroundMessage(notification, granted) ==
  LET w == display(Worker(granted), backgroundNotification(notification))
  IN /\ Commit(w)
     /\ lastEvent' = Event("backgroundmessage", w, notification, FALSE, <<>>, FALSE)
     /\ UNCHANGED <<now, hist>>

\* periodicsync event with the given tag
PeriodicSync(tag, granted) ==
  LET w == IF tag = "reminder-sync" /\ ~Falsy(notificationInterval)
           THEN showNotification(Worker(granted))
           ELSE Worker(granted)
  IN /\ Commit(w)
     /\ lastEvent' = Event("periodicsync", w, tag, FALSE, <<>>, FALSE)
     /\ UNCHANGED <<now, hist>>

\* notificationclick event, with the window clients matchAll finds
NotificationClick(clientList) ==
  LET w == notificationclick(Worker(FALSE), clientList)
  IN /\ lastEvent' = Event("notificationclick", w, clientList, FALSE, <<>>, FALSE)
     /\ Commit(w)
     /\ UNCHANGED <<now, hist>>

\* The platform terminates the worker: its memory and its timers are gone,
\* and the script's top level runs again when the next event starts it.
Terminate ==
  /\ notificationInterval' = NULL
  /\ nextNotificationTime' = NULL
  /\ checkInterval' = NULL
  /\ timers' = {}
  /\ lastEvent' = Event("terminate", Worker(FALSE), NULL, FALSE, <<>>, FALSE)
  /\ hist' = History("terminated", NULL, 0)
  /\ UNCHANGED now

\* Time passes; no handler is running.  Every timer comes nearer to its due
\* time, or is late from now on when it was due and has not run.
Elapse(t) ==
  [t EXCEPT !.wait = IF @ > StepMs THEN @ - StepMs ELSE 0,
            !.late = t.wait < StepMs]

Advance ==
  /\ now + StepMs <= MaxTime
  /\ now' = now + StepMs
  /\ timers' = {Elapse(t) : t \in timers}
  /\ lastEvent' = NoEvent
  /\ UNCHANGED <<notificationInterval, nextNotificationTime, checkInterval,
                 hist>>

\* The worker alone, under the clock: the page stays as it is.
Next ==
  \/ UNCHANGED pageAndRelay /\ \E n \in Intervals, p \in BOOLEAN : Start(n, p)
  \/ UNCHANGED pageAndRelay /\ Stop
  \/ UNCHANGED pageAndRelay /\ \E hasPort \in BOOLEAN : CheckSchedule(hasPort)
  \/ UNCHANGED pageAndRelay /\ OtherMessage
  \/ UNCHANGED pageAndRelay /\ \E t \in timers, p \in BOOLEAN : Tick(t, p)
  \/ UNCHANGED pageAndRelay /\ \E p \in BOOLEAN : Push(<<>>, p)
  \/ UNCHANGED pageAndRelay
       /\ \E tag \in {"reminder-sync", "other-sync"}, p \in BOOLEAN :
            PeriodicSync(tag, p)
  \/ UNCHANGED pageAndRelay /\ NotificationClick(<<>>)
  \/ UNCHANGED pageAndRelay /\ Terminate
  \/ UNCHANGED pageAndRelay /\ Advance

Spec == Init /\ [][Next]_vars

\* Time does not stop, and the platform does run a due timer's callback
\* while the timer lives: the setInterval of sw.js:77-79 keeps ticking.
PollTick == \E t \in timers, p \in BOOLEAN : Tick(t, p)

LiveSpec ==
  Spec /\ WF_vars(Advance /\ UNCHANGED pageAndRelay)
       /\ WF_vars(PollTick /\ UNCHANGED pageAndRelay)

\* The page loads, or loads again: the component mounts with the useState
\* defaults and its effects run.  What the page before it was waiting for is
\* gone with it.
Load ==
  LET p == render(Unmounted,
                  [PageOf(InitialState) EXCEPT !.failed = FALSE, !.intervalRef = NULL,
                                               !.timers = {}, !.failing = <<>>])
  IN /\ inbox = <<>>
     /\ page' = State(p)
     /\ storage' = p.storage
     /\ env' = [env EXCEPT !.loaded = TRUE, !.failed = FALSE]
     /\ IF env.active
        THEN inbox' = p.posts /\ waiting' = <<>>
        ELSE inbox' = inbox /\ waiting' = p.posts
     /\ tasks' = <<>>
     /\ intervalRef' = p.intervalRef
     /\ pageTimers' = p.timers
     /\ failing' = p.failing
     /\ pageEvent' = PageEvent("load", p, NoTask, "")
     /\ lastEvent' = NoEvent
     /\ UNCHANGED <<notificationInterval, nextNotificationTime, checkInterval,
                    timers, now, hist>>

\* Service workers are switched off or on in the browser's settings, and the
\* page loads again: without them the worker is gone with all it had, and no
\* message reaches it; with them a worker is registered anew.
Reopen(supported) ==
  LET p == render(Unmounted,
                  [PageOf(InitialState) EXCEPT !.serviceWorker = supported,
                                               !.failed = FALSE, !.intervalRef = NULL,
                                               !.timers = {}, !.failing = <<>>])
  IN /\ supported # env.supported
     /\ inbox = <<>>
     /\ page' = State(p)
     /\ storage' = p.storage
     /\ env' = [env EXCEPT !.loaded = TRUE, !.failed = FALSE, !.active = FALSE,
                           !.supported = supported]
     /\ inbox' = <<>>
     /\ waiting' = p.posts
     /\ tasks' = <<>>
     /\ Cardinality(p.timers) <= MaxPageTimers
     /\ intervalRef' = p.intervalRef
     /\ pageTimers' = p.timers
     /\ failing' = p.failing
     /\ pageEvent' = PageEvent("load", p, NoTask, "")
     /\ notificationInterval' = NULL
     /\ nextNotificationTime' = NULL
     /\ checkInterval' = NULL
     /\ timers' = {}
     /\ lastEvent' = NoEvent
     /\ hist' = History("terminated", NULL, 0)
     /\ UNCHANGED now

\* The communication of the page with its worker fails from now on: the
\* registration has lost its active worker and cannot be made again, or
\* posting to it throws.
WorkerFails ==
  /\ env.loaded
  /\ env.supported
  /\ env.active
  /\ ~env.failed
  /\ inbox = <<>>
  /\ env' = [env EXCEPT !.failed = TRUE]
  /\ pageEvent' = NoPageEvent
  /\ lastEvent' = NoEvent
  /\ UNCHANGED <<notificationInterval, nextNotificationTime, checkInterval,
                 timers, now, hist, page, storage, inbox, waiting, tasks>>
  /\ UNCHANGED fallbackVars

\* What the oldest failing call of scheduleNotifications awaits throws: its
\* catch runs.
ScheduleFailed ==
  /\ failing # <<>>
  /\ LET p == scheduleFailed([Page EXCEPT !.failing = Tail(@)], Head(failing))
     IN /\ CommitPage(p, tasks)
        /\ pageEvent' = PageEvent("schedulefailed", p, NoTask, "")
        /\ UNCHANGED env

\* A fallback timer of the page fires: sendNotification().
FallbackTick(t) ==
  /\ t \in pageTimers
  /\ LET p == pageSendNotification(Page)
     IN /\ CommitPage(p, tasks)
        /\ pageEvent' = PageEvent("fallback", p, NoTask, "")
        /\ UNCHANGED env

\* The user presses the button: toggleNotifications, to its first await.
Toggle ==
  LET p == render(page, toggleNotifications(Page))
  IN /\ CommitPage(p, tasks)
     /\ pageEvent' = PageEvent("toggle", p, NoTask, "")
     /\ UNCHANGED env

\* Notification.requestPermission() answers the i-th waiting run: with the
\* user's choice when the permission was "default", else with what it is.
PermissionAnswer(i, perm) ==
  LET p == render(page, permissionAnswered(Page, perm))
  IN /\ tasks[i].kind = "permission"
     /\ env.permission # "default" => perm = env.permission
     /\ CommitPage(p, Without(tasks, i))
     /\ pageEvent' = PageEvent("permission", p, tasks[i], perm)
     /\ env' = [env EXCEPT !.permission = perm]

\* getFCMToken() answers the i-th waiting run, with a token or with null.
TokenAnswer(i, fcmToken) ==
  LET p == render(page, tokenAnswered(Page, tasks[i], fcmToken))
  IN /\ tasks[i].kind = "token"
     /\ CommitPage(p, Without(tasks, i))
     /\ pageEvent' = PageEvent("token", p, tasks[i], fcmToken)
     /\ UNCHANGED env

\* The fetch of subscribeToBackend ends for the i-th waiting run.
SubscribeAnswer(i, outcome) ==
  LET p == render(page, subscribeAnswered(Page, tasks[i], outcome))
  IN /\ tasks[i].kind = "subscribe"
     /\ CommitPage(p, Without(tasks, i))
     /\ pageEvent' = PageEvent("subscribed", p, tasks[i], outcome)
     /\ UNCHANGED env

\* The fetch of unsubscribeFromBackend ends for the i-th waiting run.
UnsubscribeAnswer(i, outcome) ==
  LET p == render(page, unsubscribeAnswered(Page, tasks[i], outcome))
  IN /\ tasks[i].kind = "unsubscribe"
     /\ CommitPage(p, Without(tasks, i))
     /\ pageEvent' = PageEvent("unsubscribed", p, tasks[i], outcome)
     /\ UNCHANGED env

\* The user picks another interval.
IntervalChange(value) ==
  LET p == render(page, handleIntervalChange(Page, value))
  IN /\ value # page.interval
     /\ CommitPage(p, tasks)
     /\ pageEvent' = PageEvent("interval", p, NoTask, value)
     /\ UNCHANGED env

\* visibilitychange: the document becomes hidden or visible.
VisibilityChange ==
  LET p == handleVisibilityChange([Page EXCEPT !.hidden = ~env.hidden])
  IN /\ CommitPage(p, tasks)
     /\ pageEvent' = PageEvent("visibilitychange", p, NoTask, "")
     /\ env' = [env EXCEPT !.hidden = ~env.hidden]

\* focus: the window gains the focus.
Focus ==
  LET p == handleVisibilityChange(Page)
  IN /\ CommitPage(p, tasks)
     /\ pageEvent' = PageEvent("focus", p, NoTask, "")
     /\ UNCHANGED env

\* The user changes the permission in the browser's settings.
SettingsChange(perm) ==
  /\ perm # env.permission
  /\ env' = [env EXCEPT !.permission = perm]
  /\ pageEvent' = NoPageEvent
  /\ lastEvent' = NoEvent
  /\ UNCHANGED <<notificationInterval, nextNotificationTime, checkInterval,
                 timers, now, hist, page, storage, inbox, waiting, tasks>>
  /\ UNCHANGED fallbackVars

\* A faulty activation: the callbacks that waited for the worker find
\* nothing to post to.
ActivateDropsWaiting ==
  /\ env.supported
  /\ ~env.active
  /\ env' = [env EXCEPT !.active = TRUE]
  /\ inbox' = inbox
  /\ waiting' = <<>>
  /\ pageEvent' = NoPageEvent
  /\ lastEvent' = NoEvent
  /\ UNCHANGED <<notificationInterval, nextNotificationTime, checkInterval,
                 timers, now, hist, page, storage, tasks>>
  /\ UNCHANGED fallbackVars

\* The registered worker becomes active: navigator.serviceWorker.ready
\* resolves, and the callbacks that waited for it post, in their order.
Activate ==
  /\ env.supported
  /\ ~env.active
  /\ env' = [env EXCEPT !.active = TRUE]
  /\ inbox' = inbox \o waiting
  /\ waiting' = <<>>
  /\ pageEvent' = NoPageEvent
  /\ lastEvent' = NoEvent
  /\ UNCHANGED <<notificationInterval, nextNotificationTime, checkInterval,
                 timers, now, hist, page, storage, tasks>>
  /\ UNCHANGED fallbackVars

\* The worker handles the oldest message the page posted.
Deliver ==
  /\ inbox # <<>>
  /\ IF Head(inbox).type = "START_NOTIFICATIONS"
     THEN Start(Head(inbox).intervalMinutes, env.permission = "granted")
     ELSE Stop
  /\ inbox' = Tail(inbox)
  /\ pageEvent' = NoPageEvent
  /\ UNCHANGED <<page, storage, env, waiting, tasks>>
  /\ UNCHANGED fallbackVars

\* The platform terminates the worker while the page lives.
TerminateWorker ==
  /\ Terminate
  /\ pageEvent' = NoPageEvent
  /\ UNCHANGED <<page, storage, env, inbox, waiting, tasks>>
  /\ UNCHANGED fallbackVars

\* The page and the worker together; the clock stands still.
PageNext ==
  \/ UNCHANGED relayVars /\ Load
  \/ UNCHANGED relayVars /\ Toggle
  \/ UNCHANGED relayVars /\ \E i \in 1..Len(tasks), perm \in Permissions : PermissionAnswer(i, perm)
  \/ UNCHANGED relayVars /\ \E i \in 1..Len(tasks), fcmToken \in {FcmToken, ""} : TokenAnswer(i, fcmToken)
  \/ UNCHANGED relayVars /\ \E i \in 1..Len(tasks), outcome \in Outcomes : SubscribeAnswer(i, outcome)
  \/ UNCHANGED relayVars /\ \E i \in 1..Len(tasks), outcome \in Outcomes : UnsubscribeAnswer(i, outcome)
  \/ UNCHANGED relayVars /\ \E value \in IntervalChoices : IntervalChange(value)
  \/ UNCHANGED relayVars /\ VisibilityChange
  \/ UNCHANGED relayVars /\ Focus
  \/ UNCHANGED relayVars /\ \E perm \in Permissions : SettingsChange(perm)
  \/ UNCHANGED relayVars /\ Activate
  \/ UNCHANGED relayVars /\ Deliver
  \/ UNCHANGED relayVars /\ TerminateWorker

PageSpec == Init /\ [][PageNext]_vars

\* The page where the fallback of scheduleNotifications is reached: service
\* workers may be switched off, and the communication with the worker may
\* fail.
FallbackNext ==
  \/ UNCHANGED relayVars /\ Load
  \/ UNCHANGED relayVars /\ \E supported \in BOOLEAN : Reopen(supported)
  \/ UNCHANGED relayVars /\ WorkerFails
  \/ UNCHANGED relayVars /\ ScheduleFailed
  \/ UNCHANGED relayVars /\ \E t \in pageTimers : FallbackTick(t)
  \/ UNCHANGED relayVars /\ Toggle
  \/ UNCHANGED relayVars /\ \E i \in 1..Len(tasks), perm \in Permissions : PermissionAnswer(i, perm)
  \/ UNCHANGED relayVars /\ \E i \in 1..Len(tasks), fcmToken \in {FcmToken, ""} : TokenAnswer(i, fcmToken)
  \/ UNCHANGED relayVars /\ \E i \in 1..Len(tasks), outcome \in Outcomes : SubscribeAnswer(i, outcome)
  \/ UNCHANGED relayVars /\ \E i \in 1..Len(tasks), outcome \in Outcomes : UnsubscribeAnswer(i, outcome)
  \/ UNCHANGED relayVars /\ \E value \in IntervalChoices : IntervalChange(value)
  \/ UNCHANGED relayVars /\ VisibilityChange
  \/ UNCHANGED relayVars /\ Focus
  \/ UNCHANGED relayVars /\ \E perm \in Permissions : SettingsChange(perm)
  \/ UNCHANGED relayVars /\ Activate
  \/ UNCHANGED relayVars /\ Deliver
  \/ UNCHANGED relayVars /\ TerminateWorker

FallbackSpec == Init /\ [][FallbackNext]_vars

\* A message the page has posted is handled: the worker is started for it.
PageLiveSpec == PageSpec /\ WF_vars(Deliver /\ UNCHANGED relayVars)

\* The handlers that present notifications, over all their inputs: every
\* payload of a push, every list of window clients of a click.  None of them
\* reads the clock, which stands still here; under the clock (Spec) a push
\* carries no data and a click finds no client.
PresentNext ==
  \/ UNCHANGED pageAndRelay /\ \E n \in Intervals, p \in BOOLEAN : Start(n, p)
  \/ UNCHANGED pageAndRelay /\ Stop
  \/ UNCHANGED pageAndRelay /\ \E data \in PushData, p \in BOOLEAN : Push(data, p)
  \/ UNCHANGED pageAndRelay
       /\ \E data \in PushData, p \in BOOLEAN :
            /\ data # <<>>
            /\ data[1].json # <<>>
            /\ BackgroundMessage(data[1].json[1].notification, p)
  \/ UNCHANGED pageAndRelay
       /\ \E tag \in {"reminder-sync", "other-sync"}, p \in BOOLEAN :
            PeriodicSync(tag, p)
  \/ UNCHANGED pageAndRelay
       /\ \E clientList \in ClientLists : NotificationClick(clientList)
  \/ UNCHANGED pageAndRelay /\ Terminate

PresentSpec == Init /\ [][PresentNext]_vars


\* POST /api/subscribe {token, intervalMinutes}
Subscribe(token, intervalMinutes) ==
  LET r == subscribe(Relay, token, intervalMinutes)
  IN /\ CommitRelay(r)
     /\ relayEvent' = RelayEvent("subscribe", r, token, intervalMinutes)
     /\ UNCHANGED minute

\* POST /api/unsubscribe {token}
Unsubscribe(token) ==
  LET r == unsubscribe(Relay, token)
  IN /\ CommitRelay(r)
     /\ relayEvent' = RelayEvent("unsubscribe", r, token, "")
     /\ UNCHANGED minute

\* GET /health
Health ==
  LET r == health(Relay)
  IN /\ CommitRelay(r)
     /\ relayEvent' = RelayEvent("health", r, "", "")
     /\ UNCHANGED minute

\* The relay's clock reaches the next minute: every running job whose
\* expression matches it calls sendNotification.
CronMinute ==
  LET due == {job \in cronJobs : Matches(job.expression, minute + 1)}
  IN /\ minute < MaxMinutes
     /\ Cardinality(sending) + Cardinality(due) <= MaxSending
     /\ minute' = minute + 1
     /\ LET r == fire([Relay EXCEPT !.minute = minute + 1], due)
        IN /\ CommitRelay(r)
           /\ relayEvent' = RelayEvent("minute", r, "", "")

\* admin.messaging().send() ends for a send that was awaited.
Sent(send, result) ==
  LET r == sent(Relay, send, result)
  IN /\ send \in sending
     /\ CommitRelay(r)
     /\ relayEvent' = RelayEvent("sent", r, send.token, result)
     /\ UNCHANGED minute

\* The relay: its requests, its clock and the answers of the messaging
\* service.  The bodies are those the page sends, or lack a field.
RelayNext ==
  \/ \E token \in Tokens \cup {""}, n \in 0..MaxIntervalMinutes : Subscribe(token, n)
  \/ \E token \in Tokens \cup {""} : Unsubscribe(token)
  \/ Health
  \/ CronMinute
  \/ \E send \in sending, result \in SendResults : Sent(send, result)

RelaySpec == Init /\ [][RelayNext]_vars

\* The relay over every body of a request, those no page sends included: one
\* token subscribes with any intervalMinutes, the other is only ever asked
\* to be removed.
RelayBodyNext ==
  \/ \E token \in {FcmToken, ""}, n \in BodyIntervals : Subscribe(token, n)
  \/ \E token \in Tokens \cup {""} : Unsubscribe(token)
  \/ Health
  \/ CronMinute
  \/ \E send \in sending, result \in SendResults : Sent(send, result)

RelayBodySpec == Init /\ [][RelayBodyNext]_vars

\* ------------------------------------------------------------------ claims

Active == notificationInterval # NULL
SchedulerState == <<notificationInterval, nextNotificationTime, checkInterval, timers>>

\* The state a START leaves.
C1_StartPost ==
  lastEvent.type = "START_NOTIFICATIONS" =>
    /\ lastEvent.shown = 1
    /\ notificationInterval = lastEvent.arg
    /\ nextNotificationTime = now + lastEvent.arg * 60000

\* A CHECK_SCHEDULE handled right after a START.
C1_CheckAfterStart ==
  (lastEvent.type = "START_NOTIFICATIONS" /\ lastEvent'.type = "CHECK_SCHEDULE"
     /\ ~lastEvent'.threw) =>
    lastEvent'.replies = <<[interval |-> lastEvent.arg,
                            nextTime |-> now + lastEvent.arg * 60000]>>

\* C1: START_NOTIFICATIONS{n}, n > 0, from any worker state shows exactly one
\* notification, sets the interval to n and the deadline to now + n*60000,
\* and a CHECK_SCHEDULE handled right after it replies with these two values.
C1_StartThenQuery == []C1_StartPost /\ [][C1_CheckAfterStart]_vars

\* C1 witness: a START of 2 minutes on a schedule that was active, after time
\* has passed.
C1_Witness ==
  /\ lastEvent.type = "START_NOTIFICATIONS"
  /\ lastEvent.arg = 2
  /\ lastEvent.found # NULL
  /\ now > 0
  /\ nextNotificationTime = now + 120000

\* C2: between handlers the deadline is null exactly when the interval is.
C2_NoPartialSchedule ==
  (nextNotificationTime = NULL) <=> (notificationInterval = NULL)

\* C2 witness: a STOP has just cleared an active schedule.
C2_Witness ==
  /\ lastEvent.type = "STOP_NOTIFICATIONS"
  /\ lastEvent.found # NULL
  /\ nextNotificationTime = NULL
  /\ notificationInterval = NULL

\* The state a poll tick at or past the deadline leaves.
C3_TickPost ==
  (lastEvent.type = "tick" /\ lastEvent.found # NULL /\ now >= lastEvent.found) =>
    /\ lastEvent.shown = 1
    /\ nextNotificationTime = now + notificationInterval * 60000

\* A poll tick less than a whole interval after a poll-loop notification.
C3_NoRapidRefire ==
  (lastEvent'.type = "tick" /\ hist.polls > 0
     /\ now < hist.fireAt + notificationInterval * 60000) =>
    lastEvent'.shown = 0

\* C3: a poll tick at or past the deadline, however late, shows exactly one
\* notification and moves the deadline to now + interval*60000; a tick less
\* than a whole interval after a poll-loop notification shows nothing.
C3_CatchUp == []C3_TickPost /\ [][C3_NoRapidRefire]_vars

\* C3 witness: a tick two whole intervals past the deadline has fired once.
C3_Witness ==
  /\ lastEvent.type = "tick"
  /\ lastEvent.shown = 1
  /\ now - lastEvent.found >= 2 * notificationInterval * 60000
  /\ nextNotificationTime = now + notificationInterval * 60000

\* A poll tick of a started schedule; hist.fireAt is the time of the START
\* or, after it, of the last poll-loop notification.
C4_TickStep ==
  (lastEvent'.type = "tick" /\ hist.phase = "started") =>
    /\ lastEvent'.shown = (IF now >= nextNotificationTime THEN 1 ELSE 0)
    /\ lastEvent'.shown > 0 => now >= hist.fireAt + notificationInterval * 60000

\* C4: while the schedule started by START{n} at t0 runs, a poll tick shows a
\* notification exactly when now >= the deadline, never before t0 + n*60000,
\* and never less than n*60000 after the previous poll-loop notification.
C4_PollSpacing == [][C4_TickStep]_vars

\* C4 witness: the poll loop has shown its second notification in a row.
C4_Witness ==
  /\ lastEvent.type = "tick"
  /\ lastEvent.shown = 1
  /\ hist.polls >= 2

\* The state a STOP leaves.
C5_StopPost ==
  lastEvent.type = "STOP_NOTIFICATIONS" =>
    /\ timers = {}
    /\ checkInterval = NULL
    /\ notificationInterval = NULL
    /\ nextNotificationTime = NULL
    /\ lastEvent.shown = 0

\* Stopping what a stop has left changes nothing.
C5_StopTwice ==
  LET once == stopNotificationSchedule(Worker(FALSE))
  IN stopNotificationSchedule(once) = once

\* A STOP of an inactive schedule.
C5_StopInactive ==
  (lastEvent'.type = "STOP_NOTIFICATIONS" /\ ~Active) =>
    UNCHANGED SchedulerState

\* C5: STOP leaves no timer and both fields null and shows nothing; a STOP of
\* an inactive schedule changes nothing, and stopping twice equals stopping once.
C5_StopIdempotent == [](C5_StopPost /\ C5_StopTwice) /\ [][C5_StopInactive]_vars

\* C5 witness: a STOP handled, after time has passed, on a schedule that was
\* already inactive.
C5_Witness ==
  /\ lastEvent.type = "STOP_NOTIFICATIONS"
  /\ lastEvent.found = NULL
  /\ hist.phase = "stopped"
  /\ now > 0

\* After a STOP and before the next START no timer is live.
C6_NoTimerAfterStop == hist.phase = "stopped" => timers = {}

\* A poll tick or a periodic sync after a STOP and before the next START.
C6_SilentAfterStop ==
  (hist.phase = "stopped" /\ lastEvent'.type \in {"tick", "periodicsync"}) =>
    lastEvent'.shown = 0

\* C6: from a STOP until the next START no poll tick can run (no timer is
\* live) and neither a poll tick nor a periodic sync shows a notification.
C6_NothingAfterStop == []C6_NoTimerAfterStop /\ [][C6_SilentAfterStop]_vars

\* C6 witness: a periodic sync with the reminder tag, a minute or more into a
\* run and after a STOP, has shown nothing.
C6_Witness ==
  /\ hist.phase = "stopped"
  /\ lastEvent.type = "periodicsync"
  /\ lastEvent.arg = "reminder-sync"
  /\ lastEvent.shown = 0
  /\ now >= 60000

\* C7: at most one interval timer is live; one is live exactly when the
\* schedule is active, and it is the one checkInterval names.
C7_OnePollLoop ==
  /\ Cardinality(timers) <= 1
  /\ (timers # {}) <=> Active
  /\ \A t \in timers : checkInterval = t.id
  /\ timers = {} => checkInterval = NULL

\* C7 witness: a START on an active schedule has left exactly one timer.
C7_Witness ==
  /\ lastEvent.type = "START_NOTIFICATIONS"
  /\ lastEvent.found # NULL
  /\ Cardinality(timers) = 1

\* The worker's events other than the START and STOP commands.
OtherEvents ==
  {"tick", "CHECK_SCHEDULE", "push", "periodicsync", "notificationclick",
   "OTHER_MESSAGE"}

C8_OnlyStartStopStep ==
  lastEvent'.type \in OtherEvents =>
    UNCHANGED <<notificationInterval, nextNotificationTime>>

\* C8 as stated: no poll tick, CHECK_SCHEDULE, push, periodic sync,
\* notification click or message of another type changes the interval or
\* the deadline.
C8_OnlyStartStopMutate == [][C8_OnlyStartStopStep]_vars

C8_FrameStep ==
  lastEvent'.type \in OtherEvents =>
    /\ UNCHANGED notificationInterval
    /\ \/ UNCHANGED nextNotificationTime
       \/ /\ lastEvent'.type = "tick"
          /\ now >= nextNotificationTime
          /\ nextNotificationTime' = now + notificationInterval * 60000

\* C8 amended: none of these events changes the interval, and none changes
\* the deadline except a poll tick at or past the deadline, which sets it to
\* now + interval*60000.
C8_FrameExceptDueTick == [][C8_FrameStep]_vars

\* C8 witness: a due poll tick has moved the deadline.
C8_Witness ==
  /\ lastEvent.type = "tick"
  /\ lastEvent.found # NULL
  /\ nextNotificationTime # lastEvent.found

\* A CHECK_SCHEDULE that came with a reply port.
C9_CheckStep ==
  (lastEvent'.type = "CHECK_SCHEDULE" /\ ~lastEvent'.threw) =>
    /\ lastEvent'.replies = <<[interval |-> notificationInterval,
                               nextTime |-> nextNotificationTime]>>
    /\ lastEvent'.shown = 0
    /\ UNCHANGED SchedulerState

\* C9: CHECK_SCHEDULE with a reply port posts exactly one reply, holding the
\* interval and the deadline as they were when it was handled, shows no
\* notification and changes neither the schedule nor the timers.
C9_QueryReplies == [][C9_CheckStep]_vars

\* C9 witness: a CHECK_SCHEDULE answered from a 2-minute schedule whose poll
\* loop has fired.
C9_Witness ==
  /\ lastEvent.type = "CHECK_SCHEDULE"
  /\ Len(lastEvent.replies) = 1
  /\ lastEvent.replies[1].interval = 2
  /\ lastEvent.replies[1].nextTime = nextNotificationTime
  /\ hist.polls > 0

\* The deadline of an active schedule has passed, and the poll loop can
\* still tick before the clock's horizon.
C10_DeadlinePassed ==
  /\ Active
  /\ now >= nextNotificationTime
  /\ \E t \in timers : now + t.wait <= MaxTime

\* The scheduler has just shown a notification, or the schedule has ended.
C10_Notified ==
  \/ ~Active
  \/ lastEvent.type \in {"tick", "START_NOTIFICATIONS"} /\ lastEvent.shown = 1

\* A firing tick that ran at its due time.
C10_OnTimeFire ==
  (lastEvent.type = "tick" /\ lastEvent.shown = 1 /\ ~lastEvent.late) =>
    now - lastEvent.found <= PollMs

\* C10: while the schedule stays active and ticks keep coming, a deadline
\* that has passed is followed by a notification of the scheduler; a firing
\* tick that ran at its due time is at most one poll period past the deadline.
C10_EventuallyFires == (C10_DeadlinePassed ~> C10_Notified) /\ []C10_OnTimeFire

\* C10 witness: a tick that ran at its due time has fired, half a poll period
\* past a deadline that fell between two ticks.
C10_Witness ==
  /\ lastEvent.type = "tick"
  /\ lastEvent.shown = 1
  /\ ~lastEvent.late
  /\ now - lastEvent.found = StepMs
  /\ hist.polls >= 2

\* The schedule and the timers a handler leaves.
ScheduleOf(w) ==
  <<w.notificationInterval, w.nextNotificationTime, w.checkInterval, w.timers>>

\* A START or a poll tick leaves the same schedule and timers whether or not
\* the permission is granted.
C11_SameSchedule ==
  /\ \A n \in Intervals :
        ScheduleOf(startNotificationSchedule(Worker(FALSE), n, now))
          = ScheduleOf(startNotificationSchedule(Worker(TRUE), n, now))
  /\ \A t \in timers :
        ScheduleOf(checkAndSendNotification(Worker(FALSE), t.intervalMs, now))
          = ScheduleOf(checkAndSendNotification(Worker(TRUE), t.intervalMs, now))

\* The state a START or a due poll tick leaves when the platform displayed
\* nothing of what the handler showed.
C11_RefusedPost ==
  (lastEvent.shown = 1 /\ lastEvent.displayed = 0) =>
    /\ lastEvent.type = "START_NOTIFICATIONS" =>
          /\ notificationInterval = lastEvent.arg
          /\ nextNotificationTime = now + lastEvent.arg * 60000
    /\ lastEvent.type = "tick" =>
          nextNotificationTime = now + notificationInterval * 60000
    /\ lastEvent.type \in {"START_NOTIFICATIONS", "tick"} =>
          /\ Cardinality(timers) = 1
          /\ \A t \in timers : t.id = checkInterval /\ t.wait = PollMs

\* C11: when the permission is not granted, so that the platform displays
\* nothing, the scheduler goes on as with it: START sets the interval and the
\* deadline and starts the poll loop, a due tick moves the deadline to
\* now + interval*60000, and the poll loop stays live.
C11_RefusedDisplay == C11_SameSchedule /\ C11_RefusedPost

\* C11 witness: the poll loop's second notification in a row was not
\* displayed, and the deadline has moved on.
C11_Witness ==
  /\ lastEvent.type = "tick"
  /\ lastEvent.shown = 1
  /\ lastEvent.displayed = 0
  /\ hist.polls >= 2
  /\ nextNotificationTime = now + notificationInterval * 60000
  /\ timers # {}

\* C12: every notification a handler passes to the platform (the scheduler's,
\* a periodic sync's, the push handler's for any payload, the FCM background
\* handler's) carries the tag "reminder", so that each replaces the one before.
C12_OneTag ==
  \A i \in 1..Len(lastEvent.notes) : lastEvent.notes[i].tag = "reminder"

\* The notification object of a push payload is spread over the defaults,
\* tag included: whatever tag it carries is the tag of the notification.
C12_PayloadTagWins ==
  \A data \in PushData :
    (data # <<>> /\ data[1].json # <<>> /\ data[1].json[1].notification # <<>>
       /\ "tag" \in DOMAIN data[1].json[1].notification[1]) =>
      notificationData(data).tag = data[1].json[1].notification[1].tag

\* A push whose payload names another tag has shown a notification.
C12_Witness ==
  /\ lastEvent.type = "push"
  /\ lastEvent.displayed = 1
  /\ lastEvent.notes[1].tag = "promo"

\* C13: a notification click closes the notification; with a window client
\* of the app it focuses one of them and opens no window; with none it opens
\* exactly one window, at the root.
C13_FocusExisting ==
  lastEvent.type = "notificationclick" =>
    /\ lastEvent.closed
    /\ Len(lastEvent.arg) > 0 =>
          /\ lastEvent.focused \in 1..Len(lastEvent.arg)
          /\ lastEvent.opened = <<>>
    /\ Len(lastEvent.arg) = 0 =>
          /\ lastEvent.focused = 0
          /\ lastEvent.opened = <<"/">>

\* What the listener does with the clients it finds: their urls are
\* absolute, none equals "/", so it focuses none and opens a window.
C13_AlwaysOpens ==
  lastEvent.type = "notificationclick" =>
    /\ lastEvent.closed
    /\ lastEvent.focused = 0
    /\ lastEvent.opened = <<"/">>

\* A click handled while a window of the app was open at its root.
C13_Witness ==
  /\ lastEvent.type = "notificationclick"
  /\ Len(lastEvent.arg) = 1
  /\ lastEvent.arg[1] = "https://app.example/"
  /\ lastEvent.opened = <<"/">>

\* C14: when the document becomes visible, or the window gains the focus
\* while it is visible, and isSubscribed is true, the page posts exactly one
\* START_NOTIFICATIONS with the interval selected, which reaches the worker
\* when one is active; when isSubscribed is false or the document is hidden
\* the handler posts nothing.
C14_ForegroundResend ==
  pageEvent.type \in {"visibilitychange", "focus"} =>
    IF ~env.hidden /\ page.isSubscribed
    THEN /\ pageEvent.posts = <<StartMessage(parseInt(page.interval))>>
         /\ env.active => inbox = pageEvent.posts
    ELSE /\ pageEvent.posts = <<>>
         /\ inbox = <<>>

\* C14 witness: the document has become visible while the page was
\* subscribed with the interval of one minute, and the START is on its way
\* to the active worker.
C14_Witness ==
  /\ pageEvent.type = "visibilitychange"
  /\ ~env.hidden
  /\ page.isSubscribed
  /\ page.interval = "1"
  /\ env.active
  /\ inbox = <<StartMessage(1)>>

\* After a termination and before the next START: no schedule, no poll
\* loop, and a tick, were one to run, would show nothing.
C15_NothingAfterTermination ==
  hist.phase = "terminated" =>
    /\ notificationInterval = NULL
    /\ nextNotificationTime = NULL
    /\ checkInterval = NULL
    /\ timers = {}
    /\ \A value \in IntervalChoices :
          checkAndSendNotification(Worker(TRUE), parseInt(value) * 60000, now).shown = 0

\* The subscribed page has come to the foreground after a termination, with
\* a worker active: its START is on the way.
C15_ForegroundAfterTermination ==
  /\ hist.phase = "terminated"
  /\ pageEvent.type \in {"visibilitychange", "focus"}
  /\ ~env.hidden
  /\ page.isSubscribed
  /\ env.active

\* The schedule runs with the interval the page has selected.
C15_ActiveAsSelected ==
  /\ hist.phase = "started"
  /\ notificationInterval = parseInt(page.interval)
  /\ nextNotificationTime = now + parseInt(page.interval) * 60000
  /\ timers # {}

\* C15: a termination leaves the schedule inactive, with no poll loop, and
\* nothing of the scheduler fires until a START is handled; when the
\* subscribed page then comes to the foreground, the schedule becomes active
\* again, with the interval the page has selected.
C15_RestoredOnForeground ==
  /\ []C15_NothingAfterTermination
  /\ C15_ForegroundAfterTermination ~> C15_ActiveAsSelected

\* C15 witness: the page, subscribed with the interval of one minute, has
\* come to the foreground after the worker was terminated.
C15_Witness ==
  /\ C15_ForegroundAfterTermination
  /\ page.interval = "1"
  /\ inbox = <<StartMessage(1)>>
  /\ ~Active

\* C16: when the fetch of subscribeToBackend has ended for an enabling run
\* (permission granted, token obtained), whatever its outcome, the page has
\* persisted isSubscribed "true" and the run's interval, is subscribed, and
\* has posted START_NOTIFICATIONS with that interval to the worker; it has
\* posted no STOP_NOTIFICATIONS.
C16_EnabledWhateverRelay ==
  pageEvent.type = "subscribed" =>
    /\ pageEvent.outcome \in Outcomes
    /\ storage.isSubscribed = "true"
    /\ storage.notificationInterval = pageEvent.task.interval
    /\ page.isSubscribed
    /\ Len(pageEvent.posts) >= 1
    /\ pageEvent.posts[1] = StartMessage(parseInt(pageEvent.task.interval))
    /\ \A i \in 1..Len(pageEvent.posts) : pageEvent.posts[i] # StopMessage
    /\ IF env.active
       THEN inbox = pageEvent.posts
       ELSE SubSeq(waiting, Len(waiting) - Len(pageEvent.posts) + 1, Len(waiting))
              = pageEvent.posts

\* C16 witness: the request to the relay failed in the network, and the
\* START of the chosen interval of one minute is on its way to the worker.
C16_Witness ==
  /\ pageEvent.type = "subscribed"
  /\ pageEvent.outcome = "network"
  /\ pageEvent.task.interval = "1"
  /\ env.active
  /\ Head(inbox) = StartMessage(1)
  /\ storage.isSubscribed = "true"

\* The press of the button that disables: STOP_NOTIFICATIONS is posted at
\* once, before the relay is asked, and the relay is asked once when a token
\* is stored.
C17_DisablePosted ==
  (pageEvent'.type = "toggle" /\ page.permission = "granted" /\ page.isSubscribed) =>
    /\ pageEvent'.posts = <<StopMessage>>
    /\ env.active => inbox' = <<StopMessage>>
    /\ IF storage.fcmToken # ""
       THEN /\ pageEvent'.requests = <<UnsubscribeRequest(storage.fcmToken)>>
            /\ tasks' = tasks \o <<Task("unsubscribe", "", storage.fcmToken)>>
       ELSE /\ pageEvent'.requests = <<>>
            /\ storage'.isSubscribed = ""
            /\ ~page'.isSubscribed

\* The end of the fetch of unsubscribeFromBackend, whatever its outcome: the
\* run is over, and has started nothing.
C17_DisableEnded ==
  pageEvent'.type = "unsubscribed" =>
    /\ pageEvent'.outcome \in Outcomes
    /\ storage'.fcmToken = ""
    /\ storage'.isSubscribed = ""
    /\ ~page'.isSubscribed
    /\ pageEvent'.requests = <<>>
    /\ pageEvent'.posts = <<>>
    /\ Len(tasks') = Len(tasks) - 1

\* C17: disabling posts STOP_NOTIFICATIONS to the worker, and, whatever the
\* outcome of the unsubscribe request, removes fcmToken and isSubscribed
\* from localStorage and sets isSubscribed to false; the request is sent
\* once and never again.
C17_DisabledWhateverRelay == [][C17_DisablePosted /\ C17_DisableEnded]_vars

\* C17 witness: the relay answered the unsubscribe request with an error
\* status; the worker has handled the STOP and the page is unsubscribed.
C17_Witness ==
  /\ pageEvent.type = "unsubscribed"
  /\ pageEvent.outcome = "status"
  /\ pageEvent.task.token = FcmToken
  /\ storage.fcmToken = ""
  /\ storage.isSubscribed = ""
  /\ ~page.isSubscribed
  /\ env.active
  /\ hist.phase = "stopped"

\* The store holds one entry for a token, and /health reports the number of
\* its tokens.
C18_HealthCount ==
  /\ MapSize(subscriptions) = Cardinality(MapKeys(subscriptions))
  /\ relayEvent.type = "health" =>
       /\ relayEvent.status = 200
       /\ relayEvent.size = Cardinality(MapKeys(subscriptions))

\* A valid subscribe: one entry more for a token that was not stored, the
\* record replaced for one that was; the other tokens keep their records.
C18_SubscribeStep ==
  (relayEvent'.type = "subscribe" /\ relayEvent'.status = 200) =>
    LET token == relayEvent'.token
    IN /\ MapSize(subscriptions') =
            IF MapHas(subscriptions, token)
            THEN MapSize(subscriptions) ELSE MapSize(subscriptions) + 1
       /\ MapKeys(subscriptions') = MapKeys(subscriptions) \cup {token}
       /\ MapGet(subscriptions', token) =
            [intervalMinutes |-> relayEvent'.arg, lastSent |-> DateNow(minute)]
       /\ \A other \in MapKeys(subscriptions) \ {token} :
            MapGet(subscriptions', other) = MapGet(subscriptions, other)

\* C18: the store is keyed by token: /health reports the number of distinct
\* stored tokens; a valid subscribe of a token that is not stored makes it
\* one more, and a subscribe of a stored token replaces its record (interval,
\* lastSent) and leaves the count as it was.
C18_KeyedByToken == []C18_HealthCount /\ [][C18_SubscribeStep]_vars

\* C18 witness: two tokens were subscribed in minute 0, and the first has
\* been subscribed again in minute 2 with another interval; its record is
\* the new one and the store still holds two.
C18_Witness ==
  /\ relayEvent.type = "subscribe"
  /\ relayEvent.token = FcmToken
  /\ MapSize(subscriptions) = 2
  /\ subscriptions[1] = [key |-> FcmToken,
                         value |-> [intervalMinutes |-> 2, lastSent |-> DateNow(2)]]
  /\ subscriptions[2].value.lastSent = DateNow(0)
  /\ Job(FcmToken, 1) \notin cronJobs

\* The records of the tokens other than token are what they were.
C19_OthersKept(token) ==
  \A other \in MapKeys(subscriptions) \ {token} :
    /\ MapHas(subscriptions', other)
    /\ MapGet(subscriptions', other) = MapGet(subscriptions, other)

\* The end of a send to a token that is stored.
C19_SentStep ==
  (relayEvent'.type = "sent" /\ MapHas(subscriptions, relayEvent'.token)) =>
    LET token == relayEvent'.token
        result == relayEvent'.arg
    IN IF result \in InvalidTokenCodes
       THEN /\ ~MapHas(subscriptions', token)
            /\ MapSize(subscriptions') = MapSize(subscriptions) - 1
            /\ health(sent(Relay, CHOOSE s \in sending : s.token = token, result)).size
                 = health(Relay).size - 1
            /\ C19_OthersKept(token)
       ELSE IF result = "ok"
       THEN /\ MapKeys(subscriptions') = MapKeys(subscriptions)
            /\ MapGet(subscriptions', token) =
                 [MapGet(subscriptions, token) EXCEPT !.lastSent = DateNow(minute)]
            /\ C19_OthersKept(token)
       ELSE subscriptions' = subscriptions

\* C19: a delivery to a stored token that fails with an invalid-token error
\* removes the token's subscription, and /health counts one less; a failure
\* of another kind leaves the store as it was, lastSent included; a
\* delivery that succeeds changes the token's lastSent and nothing else.
C19_DeliveryOutcome == [][C19_SentStep]_vars

\* C19 witness: of two stored tokens, one has been removed by a delivery
\* that failed because the token is not registered.
C19_Witness ==
  /\ relayEvent.type = "sent"
  /\ relayEvent.arg = "messaging/registration-token-not-registered"
  /\ relayEvent.before = 2
  /\ MapSize(subscriptions) = 1
  /\ ~MapHas(subscriptions, relayEvent.token)

\* C20: the relay sends to a token only while the token has a subscription
\* in the store: in a minute of its clock, the tokens it hands a message to
\* admin.messaging().send() for are all stored.
C20_SendsOnlyToStored ==
  relayEvent.type = "minute" => relayEvent.attempted \subseteq MapKeys(subscriptions)

\* A token that was unsubscribed, or removed as invalid, and is sent to in a
\* later minute.
C20_SentAfterRemoval ==
  /\ relayEvent.type = "minute"
  /\ FcmToken \in relayEvent.attempted
  /\ ~MapHas(subscriptions, FcmToken)
  /\ MapHas(cronTasks, FcmToken)

\* The running jobs of a token.
JobsOf(jobs, token) == {job \in jobs : job.token = token}

\* At most one job runs for a token.
C21_OneJob == \A token \in Tokens : Cardinality(JobsOf(cronJobs, token)) <= 1

\* A valid subscribe leaves the token one running job, of the interval of
\* the request, whatever ran for it before; a minute of the clock sends, for
\* a stored token, with the interval of its last subscribe.
C21_SubscribeStep ==
  /\ (relayEvent'.type = "subscribe" /\ relayEvent'.status = 200) =>
       /\ JobsOf(cronJobs', relayEvent'.token)
            = {Job(relayEvent'.token, relayEvent'.arg)}
       /\ \A other \in Tokens \ {relayEvent'.token} :
            JobsOf(cronJobs', other) = JobsOf(cronJobs, other)
  /\ relayEvent'.type = "minute" =>
       \A send \in sending' \ sending :
         MapHas(subscriptions, send.token) =>
           send.intervalMinutes = MapGet(subscriptions, send.token).intervalMinutes

\* C21: after any sequence of subscribe requests at most one cron job runs
\* for a token: a subscribe stops the job the token had before it schedules
\* the new one, and the running job sends with the interval of the most
\* recent subscribe.
C21_OneJobPerToken == []C21_OneJob /\ [][C21_SubscribeStep]_vars

\* C21 witness: a token whose job of one minute has fired is subscribed
\* again with two minutes; the job of two minutes is the only one running.
C21_Witness ==
  /\ relayEvent.type = "subscribe"
  /\ relayEvent.token = FcmToken
  /\ relayEvent.arg = 2
  /\ relayEvent.before = 1
  /\ MapSize(subscriptions) = 1
  /\ \E send \in sending : send.token = FcmToken /\ send.intervalMinutes = 1
  /\ cronJobs = {Job(FcmToken, 2)}

\* A press of the button while the page's permission is not "granted".
C22_PressStep ==
  (pageEvent'.type = "toggle" /\ page.permission # "granted") =>
    /\ pageEvent'.posts = <<>>
    /\ pageEvent'.requests = <<>>
    /\ page' = page
    /\ storage' = storage
    /\ inbox' = inbox /\ waiting' = waiting
    /\ tasks' = IF page.isSupported
                THEN tasks \o <<Task("permission", "", "")>> ELSE tasks

\* The answer to the request for permission: nothing is sent to the relay,
\* nothing stored, the run is over; when the answer is not "granted",
\* nothing is posted to the worker either.
C22_AnswerStep ==
  pageEvent'.type = "permission" =>
    /\ pageEvent'.requests = <<>>
    /\ storage' = storage
    /\ page'.isSubscribed = page.isSubscribed
    /\ page'.permission = pageEvent'.outcome
    /\ Len(tasks') = Len(tasks) - 1
    /\ pageEvent'.outcome # "granted" =>
         /\ pageEvent'.posts = <<>>
         /\ inbox' = inbox /\ waiting' = waiting

C23_Silent ==
  (pageEvent'.type # "none" /\ pageEvent'.posts # <<>> /\ ~env.active) =>
    /\ \A i \in 1..Len(pageEvent'.toasts) : pageEvent'.toasts[i] # "Error"
    /\ SchedulerState' = SchedulerState
    /\ inbox' = inbox

\* The page's own transitions are those it makes with a worker: subscribed
\* and stored after an enable, unsubscribed and removed after a disable.
C23_PageAsUsual ==
  /\ pageEvent'.type = "subscribed" =>
       page'.isSubscribed /\ storage'.isSubscribed = "true"
  /\ pageEvent'.type = "unsubscribed" =>
       ~page'.isSubscribed /\ storage'.isSubscribed = ""

\* C23 as stated: a command sent while no worker is active is a silent
\* no-op: the page goes on as usual, and the worker that becomes active
\* later finds nothing to handle, its schedule staying as it is until the
\* page sends another command.
C23_SilentNoOp ==
  [][/\ C23_Silent
     /\ C23_PageAsUsual
     /\ (~env.active /\ env'.active) => inbox' = <<>>]_vars

\* C23, amended: a command sent while no worker is active shows no error
\* and leaves the page's own transitions as usual; it is not dropped but
\* waits for navigator.serviceWorker.ready: when the worker becomes active,
\* the commands that waited are posted to it in the order they were sent,
\* and until then the schedule is unaffected.
C23_DeferredUntilActive ==
  [][/\ C23_Silent
     /\ C23_PageAsUsual
     /\ (pageEvent'.type # "none" /\ ~env.active) =>
          waiting' = (IF pageEvent'.type = "load" THEN <<>> ELSE waiting)
                       \o pageEvent'.posts
     /\ (~env.active /\ env'.active) =>
          /\ inbox' = inbox \o waiting
          /\ waiting' = <<>>
          /\ SchedulerState' = SchedulerState]_vars

\* C23 witness: the page was enabled while no worker was active; its STARTs
\* wait, the page is subscribed, the worker's schedule is empty.
C23_Witness ==
  /\ ~env.active
  /\ pageEvent.type = "subscribed"
  /\ waiting = pageEvent.posts
  /\ Len(waiting) >= 1
  /\ page.isSubscribed
  /\ storage.isSubscribed = "true"
  /\ ~Active

\* What a first render posts on a platform whose permission is perm and
\* whose localStorage is stored.
StartupPosts(stored, perm) ==
  render(Unmounted, [PageOf(InitialState) EXCEPT !.storage = stored,
                                                 !.notificationPermission = perm]).posts

\* A page that starts with isSubscribed "true" and no interval stored, the
\* permission granted, posts START with the default of 15 minutes.
C24_DefaultWhenNoneStored ==
  StartupPosts([EmptyStorage EXCEPT !.isSubscribed = "true", !.fcmToken = FcmToken],
               "granted") = <<StartMessage(15)>>

\* C24: the page that starts with isSubscribed "true" stored and the
\* permission granted posts START_NOTIFICATIONS with the stored
\* notificationInterval (15 when none is stored), once; the page that starts
\* with no isSubscribed stored, or without the permission, posts no START.
C24_RestoredOnStartup ==
  /\ C24_DefaultWhenNoneStored
  /\ pageEvent.type = "load" =>
       /\ pageEvent.posts =
            IF storage.isSubscribed = "true" /\ env.permission = "granted"
            THEN <<StartMessage(parseInt(storage.notificationInterval))>>
            ELSE <<>>
       /\ page.isSubscribed = (storage.isSubscribed = "true")
       /\ IF env.active THEN inbox = pageEvent.posts
                        ELSE waiting = pageEvent.posts

\* C24 witness: a reload of the page that was subscribed with the interval
\* of one minute posts START of one minute to the worker.
C24_Witness ==
  /\ pageEvent.type = "load"
  /\ storage.isSubscribed = "true"
  /\ storage.notificationInterval = "1"
  /\ env.permission = "granted"
  /\ env.active
  /\ inbox = <<StartMessage(1)>>

\* C25: one action of the user that starts or restarts the schedule, an
\* enable that reaches its end or a change of the interval while subscribed,
\* posts exactly one START_NOTIFICATIONS to the worker.
C25_OneStartPerAction ==
  /\ pageEvent.type = "subscribed" =>
       pageEvent.posts = <<StartMessage(parseInt(pageEvent.task.interval))>>
  /\ (pageEvent.type = "interval" /\ page.isSubscribed) =>
       pageEvent.posts = <<StartMessage(parseInt(pageEvent.outcome))>>

\* One enable has posted START twice, and the worker has both to handle.
C25_TwoStarts ==
  /\ pageEvent.type = "subscribed"
  /\ env.active
  /\ inbox = <<StartMessage(15), StartMessage(15)>>

\* The page is unsubscribed, none of its runs is awaiting an answer, and the
\* worker has handled every message the page posted.
C26_DisabledAndQuiet ==
  /\ env.loaded
  /\ ~page.isSubscribed
  /\ storage.isSubscribed = ""
  /\ tasks = <<>>
  /\ inbox = <<>>
  /\ waiting = <<>>

\* C26: whatever page events fall into the await of the unsubscribe request,
\* once the disable has ended and the posted messages are handled the
\* worker's schedule is inactive: no START_NOTIFICATIONS follows the
\* STOP_NOTIFICATIONS of a disable before the user enables again.
C26_InactiveAfterDisable ==
  C26_DisabledAndQuiet => ~Active /\ timers = {}

\* The disable has ended and the schedule runs: the window gained the focus
\* while the unsubscribe request was awaited.
C26_ActiveAfterDisable ==
  /\ C26_DisabledAndQuiet
  /\ pageEvent.type = "unsubscribed"
  /\ hist.phase = "started"
  /\ Active

\* The handler that ran last posted a START_NOTIFICATIONS.
PostedStart ==
  \E i \in 1..Len(pageEvent.posts) : pageEvent.posts[i].type = "START_NOTIFICATIONS"

\* C27: the page posts START_NOTIFICATIONS only while the notification
\* permission is "granted", be it the permission the component holds or the
\* one the platform reports: with both "default" or "denied" no handler of
\* the page posts a START.
C27_StartOnlyWhenGranted ==
  PostedStart => page.permission = "granted" \/ env.permission = "granted"

\* The window of a subscribed page gained the focus, the permission denied
\* to the component and on the platform, and START was posted.
C27_StartWhileDenied ==
  /\ pageEvent.type = "focus"
  /\ PostedStart
  /\ page.permission = "denied"
  /\ env.permission = "denied"

\* getFCMToken answered null to an enabling run.
C28_TokenFailedStep ==
  (pageEvent'.type = "token" /\ pageEvent'.outcome = "") =>
    /\ page' = page
    /\ storage' = storage
    /\ pageEvent'.requests = <<>>
    /\ pageEvent'.posts = <<>>
    /\ inbox' = inbox /\ waiting' = waiting
    /\ pageEvent'.toasts = <<"Error">>
    /\ Len(tasks') = Len(tasks) - 1

\* C28: when no push token is obtained the enable is aborted and changes
\* nothing: isSubscribed stays as it is, nothing is written to localStorage,
\* no request goes to the relay and no START_NOTIFICATIONS is posted.
C28_AbortedWithoutToken == [][C28_TokenFailedStep]_vars

\* C28 witness: the first enable of a page with the permission granted got
\* no token; the page is unsubscribed and localStorage is empty.
C28_Witness ==
  /\ pageEvent.type = "token"
  /\ pageEvent.outcome = ""
  /\ page.permission = "granted"
  /\ ~page.isSubscribed
  /\ storage = EmptyStorage
  /\ tasks = <<>>
  /\ pageEvent.toasts = <<"Error">>

\* The user picks an interval and then presses the button to enable: the
\* run that starts holds the interval picked.
C29_EnableAfterSelection ==
  (/\ pageEvent.type = "interval"
   /\ pageEvent'.type = "toggle"
   /\ page.permission = "granted"
   /\ ~page.isSubscribed) =>
    tasks' = tasks \o <<Task("token", pageEvent.outcome, "")>>

\* The START an enable posts first carries the interval its run holds.
C29_StartOfRun ==
  pageEvent.type = "subscribed" =>
    Head(pageEvent.posts) = StartMessage(parseInt(pageEvent.task.interval))

\* C29: the START_NOTIFICATIONS of an enable carries the interval the user
\* selected last, also when the selection was changed while unsubscribed and
\* localStorage holds another interval: the enable pressed after a selection
\* runs with the interval selected, and its START carries it.
C29_EnableUsesSelected == [][C29_EnableAfterSelection]_vars /\ []C29_StartOfRun

\* The user, unsubscribed, picked one minute while localStorage holds 15:
\* the page shows 15 again.
C29_SelectionReverted ==
  /\ pageEvent.type = "interval"
  /\ pageEvent.outcome = "1"
  /\ ~page.isSubscribed
  /\ storage.notificationInterval = "15"
  /\ page.interval = "15"

\* Every live timer is the poll loop of the running schedule, and its
\* callback holds the interval of that schedule.
C30_LoopHoldsInterval ==
  \A t \in timers :
    /\ Active
    /\ t.id = checkInterval
    /\ t.intervalMs = notificationInterval * 60000

\* A START leaves one poll loop, of its own interval, whatever loop ran
\* before; a tick that fires moves the deadline by the current interval.
C30_LoopStep ==
  /\ lastEvent'.type = "START_NOTIFICATIONS" =>
       /\ Cardinality(timers') = 1
       /\ \A t \in timers' : t.intervalMs = lastEvent'.arg * 60000
  /\ (lastEvent'.type = "tick" /\ lastEvent'.shown = 1) =>
       /\ notificationInterval' = notificationInterval
       /\ nextNotificationTime' = now + notificationInterval * 60000

\* C30: whenever a poll loop runs, the interval it recomputes the deadline
\* with is the current intervalMinutes * 60000: after START(a) and then
\* START(b) every tick moves the deadline by b, and none uses a.
C30_LoopUsesCurrentInterval == []C30_LoopHoldsInterval /\ [][C30_LoopStep]_vars

\* C30 witness: a START of one minute has replaced, five seconds after it
\* began, a schedule of two minutes; the one poll loop holds one minute.
C30_Witness ==
  /\ lastEvent.type = "START_NOTIFICATIONS"
  /\ lastEvent.arg = 1
  /\ lastEvent.found = 2 * 60000
  /\ now = StepMs
  /\ \E t \in timers : timers = {t} /\ t.intervalMs = 60000
  /\ nextNotificationTime = now + 60000

\* The notification the push handler is to show for event.data, case by
\* case: the defaults for no payload, for an object without a notification
\* and for an empty text; the notification object's fields over the defaults;
\* the text of a payload that is no JSON as the body.
C35_Shows(data, note) ==
  /\ data = <<>> => note = ReminderNotification
  /\ (data # <<>> /\ data[1].json # <<>>) =>
        LET given == data[1].json[1].notification
        IN /\ given = <<>> => note = ReminderNotification
           /\ given # <<>> =>
                /\ \A k \in DOMAIN given[1] : note[k] = given[1][k]
                /\ \A k \in DOMAIN ReminderNotification \ DOMAIN given[1] :
                      note[k] = ReminderNotification[k]
  /\ (data # <<>> /\ data[1].json = <<>>) =>
        /\ note.body = IF data[1].text # "" THEN data[1].text
                       ELSE ReminderNotification.body
        /\ \A k \in DOMAIN ReminderNotification \ {"body"} :
              note[k] = ReminderNotification[k]

\* The statement as first made: the text of every payload that is no JSON is
\* the body of the notification, the empty text included.
C35_TextAlwaysBody ==
  (lastEvent.type = "push" /\ lastEvent.arg # <<>> /\ lastEvent.arg[1].json = <<>>) =>
    /\ lastEvent.shown = 1
    /\ lastEvent.notes[1].body = lastEvent.arg[1].text

\* C35: each push event passes exactly one notification to the platform:
\* the fixed defaults for no payload, the fields of a JSON payload's
\* notification object over the defaults, the text of a payload that is no
\* JSON as the body when it is not empty (the default body when it is); the
\* handler leaves the interval, the deadline, the poll loop and the timers
\* as they were.
C35_OnePerPush ==
  [][lastEvent'.type = "push" =>
       /\ lastEvent'.shown = 1
       /\ Len(lastEvent'.notes) = 1
       /\ C35_Shows(lastEvent'.arg, lastEvent'.notes[1])
       /\ UNCHANGED <<notificationInterval, nextNotificationTime,
                      checkInterval, timers>>]_vars

\* C35 witness: while a schedule runs, a push whose payload is no JSON has
\* shown one notification with the payload's text as its body.
C35_Witness ==
  /\ lastEvent.type = "push"
  /\ lastEvent.arg # <<>>
  /\ lastEvent.arg[1].json = <<>>
  /\ lastEvent.shown = 1
  /\ lastEvent.notes[1].body = "Build finished"
  /\ lastEvent.notes[1].title = ReminderNotification.title
  /\ ~Falsy(notificationInterval)
  /\ timers # {}

\* C34: a change of the interval while subscribed persists the new value as
\* notificationInterval and posts START_NOTIFICATIONS of the new interval to
\* the worker, and nothing else; it sends no request to the relay and starts
\* no run that could send one, and the relay's store and cron jobs stay as
\* they were.
C34_IntervalChangeIsLocal ==
  [][(pageEvent'.type = "interval" /\ page.isSubscribed) =>
       /\ storage'.notificationInterval = pageEvent'.outcome
       /\ page'.interval = pageEvent'.outcome
       /\ pageEvent'.posts # <<>>
       /\ \A i \in 1..Len(pageEvent'.posts) :
             pageEvent'.posts[i] = StartMessage(parseInt(pageEvent'.outcome))
       /\ pageEvent'.requests = <<>>
       /\ tasks' = tasks
       /\ storage'.fcmToken = storage.fcmToken
       /\ UNCHANGED <<subscriptions, cronTasks, cronJobs>>]_vars

\* C34 witness: subscribed with a token, the page has changed the interval
\* from the default to one minute: the preference holds the new value, START
\* of one minute is with the worker, and no request went to the relay.
C34_Witness ==
  /\ pageEvent.type = "interval"
  /\ pageEvent.outcome = "1"
  /\ page.isSubscribed
  /\ storage.isSubscribed = "true"
  /\ storage.fcmToken # ""
  /\ storage.notificationInterval = "1"
  /\ pageEvent.requests = <<>>
  /\ env.active
  /\ Len(inbox) > 0
  /\ inbox[Len(inbox)] = StartMessage(1)

\* What a request may not change when it is refused: the subscriptions, the
\* cron tasks and the running jobs.
C32_StoreAndJobs == <<subscriptions, cronTasks, cronJobs>>

\* C32: subscribe without a token or with an intervalMinutes that is missing
\* or zero, and unsubscribe without a token, are answered with 400, and a
\* request answered with 400 leaves the subscriptions and the cron jobs as
\* they were; unsubscribe of a token that is not stored is answered with 200
\* and leaves the subscriptions as they were.
C32_RefusedChangesNothing ==
  [][/\ (relayEvent'.type = "subscribe"
           /\ (relayEvent'.token = "" \/ relayEvent'.arg \in {NULL, 0})) =>
          relayEvent'.status = 400
     /\ (relayEvent'.type = "unsubscribe" /\ relayEvent'.token = "") =>
          relayEvent'.status = 400
     /\ relayEvent'.status = 400 =>
          /\ relayEvent'.type \in {"subscribe", "unsubscribe"}
          /\ UNCHANGED C32_StoreAndJobs
          /\ UNCHANGED sending
     /\ (relayEvent'.type = "unsubscribe" /\ relayEvent'.token # ""
           /\ ~MapHas(subscriptions, relayEvent'.token)) =>
          /\ relayEvent'.status = 200
          /\ UNCHANGED C32_StoreAndJobs]_vars

\* C32 witness: with a subscription stored and its job running, a subscribe
\* for the same token with intervalMinutes 0 was answered with 400.
C32_Witness ==
  /\ relayEvent.type = "subscribe"
  /\ relayEvent.token = FcmToken
  /\ relayEvent.arg = 0
  /\ relayEvent.status = 400
  /\ MapHas(subscriptions, FcmToken)
  /\ MapGet(subscriptions, FcmToken).intervalMinutes = 1
  /\ cronJobs = {Job(FcmToken, 1)}

\* C33: a subscribe request that is answered with another status than 200
\* (400, or 500 when scheduling the job throws) leaves the subscriptions
\* exactly as they were.
C33_FailedSubscribeStoresNothing ==
  [][(relayEvent'.type = "subscribe" /\ relayEvent'.status # 200) =>
       subscriptions' = subscriptions]_vars

\* What a subscribe answered with 500 is seen to leave for a token that was
\* subscribed at one minute: the subscription overwritten with NaN, and no
\* job running for it.
C33_After500 ==
  /\ relayEvent.type = "subscribe"
  /\ relayEvent.status = 500
  /\ relayEvent.before = 1
  /\ MapGet(subscriptions, FcmToken).intervalMinutes = NaN
  /\ JobsOf(cronJobs, FcmToken) = {}
  /\ MapHas(cronTasks, FcmToken)
  /\ MapGet(cronTasks, FcmToken) = Job(FcmToken, 1)

\* A step that starts a fallback timer of the page.
C31_Started == pageTimers' \ pageTimers # {} \/ (intervalRef' # NULL /\ intervalRef' # intervalRef)

\* The fallback timer is started only where service workers are missing or
\* the communication with the worker has failed, and by no step that posts
\* START_NOTIFICATIONS.
C31_StartedOnlyOnFailure ==
  [][C31_Started =>
       /\ ~env'.supported \/ env.failed
       /\ \A i \in 1..Len(pageEvent'.posts) :
             pageEvent'.posts[i].type # "START_NOTIFICATIONS"]_vars

\* The timers of the page other than the one intervalRef names.
C31_Others == {t \in pageTimers : t.id # intervalRef}

\* The timer intervalRef names is cleared by the step of a disable, by every
\* call of scheduleNotifications (which without service workers starts one
\* in its place), and when the page is unmounted.
C31_Cleared ==
  [][/\ (pageEvent'.type = "toggle" /\ page.isSubscribed
           /\ page.permission = "granted") =>
          pageTimers' = C31_Others /\ intervalRef' = NULL
     /\ \A n \in Intervals :
          Cardinality(scheduleNotifications(Page, n).timers)
            = Cardinality(C31_Others) + (IF env.supported THEN 0 ELSE 1)
     /\ pageEvent'.type = "load" => pageTimers' = {} /\ intervalRef' = NULL]_vars

\* C31: the page's own fallback timer is started only when service workers
\* are unsupported or communication with the worker throws, never after a
\* START_NOTIFICATIONS was posted; it is cleared on disable, on every
\* reschedule and on unmount; and, the part stated here, at most one
\* fallback timer of the page exists at any time.
C31_AtMostOneFallbackTimer == Cardinality(pageTimers) <= 1

\* Two fallback timers of the page are live, one of which intervalRef no
\* longer names, so that nothing the page does can clear it.
C31_LeakedTimer ==
  /\ Cardinality(pageTimers) = 2
  /\ \E t \in pageTimers : t.id # intervalRef
  /\ failing = <<>>

====
